---- MODULE Spec2Model ----
(***************************************************************************)
(* Model of the FIM corpus pipeline of cyberyu/starcoder2finetune: the     *)
(* pair extractor (pipeline/extract_nextline_pairs.py), the three phase    *)
(* filters and the composite scorer.                                       *)
(*                                                                         *)
(* Text is a sequence of one-character strings, so len(), strip(), the     *)
(* regular expressions and the FIM (de)serialisation are computed on the   *)
(* characters as the Python code computes them.  Scores are kept in        *)
(* thousandths (0.4 is 400).                                               *)
(***************************************************************************)
EXTENDS Integers, Sequences, FiniteSets, TLC

VARIABLES
    lines,        \* extractor: the source file, as f.readlines() returns it
    pc,           \* extractor: "strategy1", "strategy2" or "done"
    it,           \* extractor: number of the next (output_len, idx) iteration
    pairs,        \* extractor: the records appended so far
    pair_tuples,  \* extractor: the pair_tuple of each appended record
    seen_pairs,   \* extractor: the deduplication set
    files,        \* stage outputs on disk, by stage name
    run           \* the stage run in progress (or the last one finished)

vars == <<lines, pc, it, pairs, pair_tuples, seen_pairs, files, run>>

(***************************************************************************)
(* Characters and Python string primitives                                 *)
(***************************************************************************)
Lower == {"a","b","c","d","e","f","g","h","i","j","k","l","m","n","o","p","q","r","s","t","u","v","w","x","y","z"}
Upper == {"A","B","C","D","E","F","G","H","I","J","K","L","M","N","O","P","Q","R","S","T","U","V","W","X","Y","Z"}
Digit == {"0","1","2","3","4","5","6","7","8","9"}
\* \w of the re module
WordCh == Lower \cup Upper \cup Digit \cup {"_"}
\* \s of the re module, and what str.strip() removes
SpaceCh == {" ", "\t", "\n", "\r", "\f"}

\* a sequence given as a function on 1..n, with its elements computed
AsTuple(f) == SubSeq(f, 1, Len(f))

SetMin(I) == CHOOSE i \in I : \A j \in I : i <= j
RECURSIVE FirstNonSpace(_, _)
FirstNonSpace(s, i) ==
    IF i > Len(s) THEN i
    ELSE IF s[i] \in SpaceCh THEN FirstNonSpace(s, i + 1) ELSE i

RECURSIVE LastNotIn(_, _, _)
LastNotIn(s, i, cs) ==
    IF i < 1 THEN 0
    ELSE IF s[i] \in cs THEN LastNotIn(s, i - 1, cs) ELSE i

\* str.lstrip()
LStrip(s) == SubSeq(s, FirstNonSpace(s, 1), Len(s))
\* str.rstrip(chars)
RStripChars(s, cs) == SubSeq(s, 1, LastNotIn(s, Len(s), cs))
\* str.rstrip()
RStrip(s) == RStripChars(s, SpaceCh)
\* str.strip()
Strip(s) == LStrip(RStrip(s))

\* str.startswith(w), str.endswith(w)
StartsWith(s, w) == Len(s) >= Len(w) /\ SubSeq(s, 1, Len(w)) = w
EndsWith(s, w) == Len(s) >= Len(w) /\ SubSeq(s, Len(s) - Len(w) + 1, Len(s)) = w
\* the start positions of the occurrences of w in s
Occurrences(s, w) == {i \in 1..(Len(s) - Len(w) + 1) : SubSeq(s, i, i + Len(w) - 1) = w}
\* w in s
Contains(s, w) == Occurrences(s, w) # {}
\* str.count(c) for one character
CountCh(s, c) == Cardinality({i \in 1..Len(s) : s[i] = c})

RECURSIVE SumSeq(_)
SumSeq(ns) == IF ns = <<>> THEN 0 ELSE Head(ns) + SumSeq(Tail(ns))

\* sep.join(ls)
RECURSIVE Join(_, _)
Join(sep, ls) ==
    IF ls = <<>> THEN <<>>
    ELSE IF Len(ls) = 1 THEN ls[1]
    ELSE ls[1] \o sep \o Join(sep, Tail(ls))

\* s.split('\n')
RECURSIVE SplitLines(_)
SplitLines(s) ==
    LET nl == {i \in 1..Len(s) : s[i] = "\n"}
    IN  IF nl = {} THEN <<s>>
        ELSE LET k == SetMin(nl)
             IN  <<SubSeq(s, 1, k - 1)>> \o SplitLines(SubSeq(s, k + 1, Len(s)))

(***************************************************************************)
(* Regular expressions: a pattern is a tree; ReEnds(r, s, P) is the set of *)
(* positions where a match of r that starts at a position of P can end.    *)
(***************************************************************************)
Ch(cs) == [t |-> "ch", cs |-> cs]
NotCh(cs) == [t |-> "nch", cs |-> cs]
Cat(rs) == [t |-> "cat", rs |-> rs]
Alt(rs) == [t |-> "alt", rs |-> rs]
Star(r) == [t |-> "star", r |-> r]
Opt(r) == [t |-> "opt", r |-> r]
Plus(r) == Cat(<<r, Star(r)>>)
Lit(w) == [t |-> "lit", w |-> w]
Bos == [t |-> "bos"]
Eos == [t |-> "eos"]
Wb == [t |-> "wb"]
\* "." without re.DOTALL
Dot == NotCh({"\n"})

IsWordAt(s, p) == p >= 1 /\ p <= Len(s) /\ s[p] \in WordCh

RECURSIVE ReEnds(_, _, _)
RECURSIVE CatEnds(_, _, _, _)
RECURSIVE StarClose(_, _, _, _)
ReEnds(r, s, P) ==
    IF P = {} THEN {}
    ELSE CASE r.t = "ch" -> {p + 1 : p \in {q \in P : q <= Len(s) /\ s[q] \in r.cs}}
           [] r.t = "nch" -> {p + 1 : p \in {q \in P : q <= Len(s) /\ s[q] \notin r.cs}}
           [] r.t = "lit" -> {p + Len(r.w) : p \in {q \in P : q + Len(r.w) - 1 <= Len(s)
                                                           /\ \A i \in DOMAIN r.w : s[q + i - 1] = r.w[i]}}
           [] r.t = "bos" -> P \cap {1}
           [] r.t = "eos" -> {p \in P : p = Len(s) + 1 \/ (p = Len(s) /\ s[p] = "\n")}
           [] r.t = "wb" -> {p \in P : IsWordAt(s, p - 1) # IsWordAt(s, p)}
           [] r.t = "cat" -> CatEnds(r.rs, 1, s, P)
           [] r.t = "alt" -> UNION {ReEnds(r.rs[k], s, P) : k \in DOMAIN r.rs}
           [] r.t = "opt" -> P \cup ReEnds(r.r, s, P)
           [] r.t = "star" -> StarClose(r.r, s, P, P)

\* the parts rs[k], rs[k+1], ... of a concatenation, one after the other
CatEnds(rs, k, s, P) ==
    IF k > Len(rs) \/ P = {} THEN P ELSE CatEnds(rs, k + 1, s, ReEnds(rs[k], s, P))

\* the positions reachable by repeating r from the positions `seen`, of which
\* `frontier` are those not yet extended
StarClose(r, s, seen, frontier) ==
    LET N == ReEnds(r, s, frontier) \ seen
    IN  IF N = {} THEN seen ELSE StarClose(r, s, seen \cup N, N)

\* re.match(r, s)
ReMatch(r, s) == ReEnds(r, s, {1}) # {}
\* re.search(r, s)
ReSearch(r, s) == ReEnds(r, s, 1..(Len(s) + 1)) # {}

(***************************************************************************)
(* Pair extractor: pipeline/extract_nextline_pairs.py                      *)
(***************************************************************************)
min_context == 2
max_context == 10
max_output == 2
step_size == 2

\* the comment prefixes tested by is_code_line and has_real_code
StartsComment4(stripped) ==
    \/ StartsWith(stripped, <<"/","/">>)
    \/ StartsWith(stripped, <<"/","*">>)
    \/ StartsWith(stripped, <<"*">>)
    \/ StartsWith(stripped, <<"*","/">>)

\* the editor-template markers
HasTemplateMarker(l) ==
    \/ Contains(l, <<"|"," ","T","e","m","p","l","a","t","e","s"," ","*">>)
    \/ Contains(l, <<"o","p","e","n"," ","t","h","e"," ","t","e","m","p","l","a","t","e"," ","i","n"," ","t","h","e"," ","e","d","i","t","o","r","."," ","*","/"," ","/","*"," ","*">>)

\* is_code_line without its test for comment lines
is_code_line_with_comments(line) ==
    LET stripped == Strip(line)
    IN  /\ stripped # <<>>
        /\ ~HasTemplateMarker(line)

is_code_line(line) ==
    LET stripped == Strip(line)
    IN  /\ stripped # <<>>
        /\ ~StartsComment4(stripped)
        /\ ~HasTemplateMarker(line)

\* ^[\s{}\[\]();,\.]*$
ReOnlyBrackets == Cat(<<Bos, Star(Ch(SpaceCh \cup {"{","}","[","]","(",")",";",",","."})), Eos>>)

has_real_code(ls) ==
    \E k \in DOMAIN ls :
        LET stripped == Strip(ls[k])
        IN  /\ stripped # <<>>
            /\ ~StartsComment4(stripped)
            /\ ~ReMatch(ReOnlyBrackets, stripped)
            /\ ~(StartsWith(stripped, <<"#">>) /\ ~StartsWith(stripped, <<"#","i","n","c","l","u","d","e">>))

\* the test clean_input_context applies to a line: a comment line
IsCommentLine(l) ==
    \/ StartsWith(Strip(l), <<"/","*">>)
    \/ StartsWith(Strip(l), <<"/","/">>)
    \/ StartsWith(Strip(l), <<"*">>)

RECURSIVE DropLeadingBlankOrComment(_)
DropLeadingBlankOrComment(ls) ==
    IF ls # <<>> /\ (Strip(ls[1]) = <<>> \/ IsCommentLine(ls[1]))
    THEN DropLeadingBlankOrComment(Tail(ls))
    ELSE ls

\* clean_input_context without its second step, which removes the comment
\* lines left after the first code line
clean_input_context_leading_only(context_lines) ==
    DropLeadingBlankOrComment(context_lines)

clean_input_context(context_lines) ==
    SelectSeq(DropLeadingBlankOrComment(context_lines), LAMBDA l : ~IsCommentLine(l))

RECURSIVE DropTrailingOpenBrace(_)
DropTrailingOpenBrace(ls) ==
    IF ls # <<>> /\ Strip(ls[Len(ls)]) = <<"{">>
    THEN DropTrailingOpenBrace(SubSeq(ls, 1, Len(ls) - 1))
    ELSE ls

RECURSIVE DropUnpairedClose(_, _, _)
DropUnpairedClose(ls, open_brackets, close_brackets) ==
    IF ls # <<>> /\ close_brackets > open_brackets /\ Strip(ls[Len(ls)]) = <<"}">>
    THEN DropUnpairedClose(SubSeq(ls, 1, Len(ls) - 1), open_brackets, close_brackets - 1)
    ELSE ls

\* clean_output_lines without its first step, which removes the lines that
\* are only an opening brace
clean_output_lines_keeping_open_brace(output_lines) ==
    LET c2 == DropTrailingOpenBrace(output_lines)
        c3 == IF c2 # <<>> /\ Len(c2) = 1 /\ EndsWith(Strip(c2[1]), <<"{">>)
              THEN <<RStrip(RStripChars(c2[1], {" ", "{"}))>>
              ELSE c2
        c4 == [k \in DOMAIN c3 |-> LStrip(c3[k])]
        c5 == SelectSeq(c4, LAMBDA l : Strip(l) # <<"}">>)
        open_brackets == SumSeq([k \in DOMAIN c5 |-> CountCh(c5[k], "{")])
        close_brackets == SumSeq([k \in DOMAIN c5 |-> CountCh(c5[k], "}")])
    IN  DropUnpairedClose(c5, open_brackets, close_brackets)

clean_output_lines(output_lines) ==
    LET c1 == SelectSeq(output_lines, LAMBDA l : Strip(l) # <<"{">>)
        c2 == DropTrailingOpenBrace(c1)
        c3 == IF c2 # <<>> /\ Len(c2) = 1 /\ EndsWith(Strip(c2[1]), <<"{">>)
              THEN <<RStrip(RStripChars(c2[1], {" ", "{"}))>>
              ELSE c2
        c4 == [k \in DOMAIN c3 |-> LStrip(c3[k])]
        c5 == SelectSeq(c4, LAMBDA l : Strip(l) # <<"}">>)
        open_brackets == SumSeq([k \in DOMAIN c5 |-> CountCh(c5[k], "{")])
        close_brackets == SumSeq([k \in DOMAIN c5 |-> CountCh(c5[k], "}")])
    IN  DropUnpairedClose(c5, open_brackets, close_brackets)

\* #\s*if(def|ndef)?\b
ReIfFamily == Cat(<<Ch({"#"}), Star(Ch(SpaceCh)), Lit(<<"i","f">>), Opt(Alt(<<Lit(<<"d","e","f">>), Lit(<<"n","d","e","f">>)>>)), Wb>>)

\* the scan of has_invalid_preprocessor_structure from line k on, with the
\* stack of open #if's; TRUE when an orphaned #else/#elif/#endif is met
RECURSIVE PreprocessorScan(_, _, _)
PreprocessorScan(ls, k, stack) ==
    IF k > Len(ls) THEN FALSE
    ELSE LET stripped == Strip(ls[k])
         IN  IF ~StartsWith(stripped, <<"#">>) THEN PreprocessorScan(ls, k + 1, stack)
             ELSE IF ReMatch(ReIfFamily, stripped)
                  THEN PreprocessorScan(ls, k + 1, Append(stack, "if"))
             ELSE IF StartsWith(stripped, <<"#","e","l","s","e">>) \/ StartsWith(stripped, <<"#","e","l","i","f">>)
                  THEN IF stack = <<>> THEN TRUE ELSE PreprocessorScan(ls, k + 1, stack)
             ELSE IF StartsWith(stripped, <<"#","e","n","d","i","f">>)
                  THEN IF stack = <<>> THEN TRUE
                       ELSE PreprocessorScan(ls, k + 1, SubSeq(stack, 1, Len(stack) - 1))
             ELSE PreprocessorScan(ls, k + 1, stack)

has_invalid_preprocessor_structure(context_lines) == PreprocessorScan(context_lines, 1, <<>>)

\* [i for i, l in enumerate(lines) if is_code_line(l)], indices from 0
RECURSIVE CodeIndicesFrom(_, _)
CodeIndicesFrom(ls, i) ==
    IF i >= Len(ls) THEN <<>>
    ELSE (IF is_code_line(ls[i + 1]) THEN <<i>> ELSE <<>>) \o CodeIndicesFrom(ls, i + 1)

code_indices(ls) == CodeIndicesFrom(ls, 0)

\* lines[i].rstrip(): every trailing white-space character removed
RStripAllSpace(l) == RStrip(l)

\* lines[i].rstrip('\n')
RStripNewline(l) == RStripChars(l, {"\n"})

\* ^\s*[\}\];,]+\s*$
ReOnlyClosing == Cat(<<Bos, Star(Ch(SpaceCh)), Plus(Ch({"}","]",";",","})), Star(Ch(SpaceCh)), Eos>>)

\* f"<fim_prefix>{prefix}<fim_suffix><fim_middle>{middle}"
FimContent(prefix, middle) ==
    <<"<","f","i","m","_","p","r","e","f","i","x",">">> \o prefix \o <<"<","f","i","m","_","s","u","f","f","i","x",">">> \o <<"<","f","i","m","_","m","i","d","d","l","e",">">> \o middle

\* the context window of a candidate, after cleaning
ContextLines(ls, ci, idx, context_len) ==
    LET context_end == ci[idx + 1]
        context_start == context_end - context_len + 1
    IN  clean_input_context(AsTuple([k \in 1..context_len |-> RStripNewline(ls[context_start + k])]))

\* the output window of a candidate, after cleaning
OutputLines(ls, ci, idx, output_len) ==
    LET js == {j \in 1..output_len : idx + j < Len(ci)}
    IN  clean_output_lines(AsTuple([j \in 1..Cardinality(js) |-> RStripNewline(ls[ci[idx + j + 1] + 1])]))

\* the body of the context_len loop for one candidate: <<pair_tuple>> when the
\* candidate survives every check, <<>> when it is skipped
CandidatePair(ls, ci, idx, context_len, output_len) ==
    IF ci[idx + 1] - context_len + 1 < 0 THEN <<>>
    ELSE LET context_lines == ContextLines(ls, ci, idx, context_len)
         IN  IF has_invalid_preprocessor_structure(context_lines) THEN <<>>
             ELSE LET output_lines == OutputLines(ls, ci, idx, output_len)
                  IN  IF context_lines = <<>> \/ output_lines = <<>> THEN <<>>
                      ELSE IF ~has_real_code(output_lines) THEN <<>>
                      ELSE IF ReMatch(ReOnlyClosing, context_lines[Len(context_lines)]) THEN <<>>
                      ELSE IF \E l \in {context_lines[k] : k \in DOMAIN context_lines}
                                       \cup {output_lines[k] : k \in DOMAIN output_lines} :
                                  HasTemplateMarker(l) THEN <<>>
                      ELSE << <<Join(<<"\n">>, context_lines), Join(<<"\n">>, output_lines)>> >>

\* the surviving candidates of one idx, for context_len from c up, in order
RECURSIVE CandidatesFrom(_, _, _, _, _)
CandidatesFrom(ls, ci, idx, c, output_len) ==
    IF c > max_context THEN <<>>
    ELSE CandidatePair(ls, ci, idx, c, output_len) \o CandidatesFrom(ls, ci, idx, c + 1, output_len)

\* AddPairs without the test of seen_pairs: every candidate is appended
RECURSIVE AddPairsNoDedup(_, _)
AddPairsNoDedup(st, cands) ==
    IF cands = <<>> THEN st
    ELSE LET pair_tuple == Head(cands)
         IN  AddPairsNoDedup([pairs |-> Append(st.pairs, [content |-> FimContent(pair_tuple[1], pair_tuple[2])]),
                              tuples |-> Append(st.tuples, pair_tuple),
                              seen |-> st.seen \cup {pair_tuple}],
                             Tail(cands))

\* if pair_tuple not in seen_pairs: pairs.append(...); seen_pairs.add(pair_tuple)
RECURSIVE AddPairs(_, _)
AddPairs(st, cands) ==
    IF cands = <<>> THEN st
    ELSE LET pair_tuple == Head(cands)
         IN  IF pair_tuple \notin st.seen
             THEN AddPairs([pairs |-> Append(st.pairs, [content |-> FimContent(pair_tuple[1], pair_tuple[2])]),
                            tuples |-> Append(st.tuples, pair_tuple),
                            seen |-> st.seen \cup {pair_tuple}],
                           Tail(cands))
             ELSE AddPairs(st, Tail(cands))

\* the (output_len, idx) iterations of Strategy 1, in loop order
Strategy1Iterations(n) ==
    [k \in 1..(IF n > 1 THEN n - 1 ELSE 0) |-> <<1, k - 1>>]
    \o [k \in 1..(IF n > 2 THEN n - 2 ELSE 0) |-> <<2, k - 1>>]

\* the idx values of Strategy 2: range(0, n - max_output, step_size)
Strategy2Iterations(n) ==
    [k \in 1..(IF n > max_output THEN (n - max_output + step_size - 1) \div step_size ELSE 0)
        |-> (k - 1) * step_size]

ExtractorUnchanged == UNCHANGED <<lines, files, run>>

\* one (output_len, idx) iteration of Strategy 1 with its context_len loop
Strategy1Step ==
    /\ pc = "strategy1"
    /\ it <= Len(Strategy1Iterations(Len(code_indices(lines))))
    /\ LET ci == code_indices(lines)
           cur == Strategy1Iterations(Len(ci))[it]
           st == AddPairs([pairs |-> pairs, tuples |-> pair_tuples, seen |-> seen_pairs],
                          CandidatesFrom(lines, ci, cur[2], min_context, cur[1]))
       IN  /\ pairs' = st.pairs
           /\ pair_tuples' = st.tuples
           /\ seen_pairs' = st.seen
    /\ it' = it + 1
    /\ pc' = pc
    /\ ExtractorUnchanged

\* Strategy 1's loops are exhausted: go on to Strategy 2
Strategy1End ==
    /\ pc = "strategy1"
    /\ it > Len(Strategy1Iterations(Len(code_indices(lines))))
    /\ pc' = "strategy2"
    /\ it' = 1
    /\ UNCHANGED <<pairs, pair_tuples, seen_pairs>>
    /\ ExtractorUnchanged

\* one idx iteration of Strategy 2 with its context_len loop
Strategy2Step ==
    /\ pc = "strategy2"
    /\ it <= Len(Strategy2Iterations(Len(code_indices(lines))))
    /\ LET ci == code_indices(lines)
           idx == Strategy2Iterations(Len(ci))[it]
           st == AddPairs([pairs |-> pairs, tuples |-> pair_tuples, seen |-> seen_pairs],
                          CandidatesFrom(lines, ci, idx, min_context, max_output))
       IN  /\ pairs' = st.pairs
           /\ pair_tuples' = st.tuples
           /\ seen_pairs' = st.seen
    /\ it' = it + 1
    /\ pc' = pc
    /\ ExtractorUnchanged

\* return pairs
ExtractReturn ==
    /\ pc = "strategy2"
    /\ it > Len(Strategy2Iterations(Len(code_indices(lines))))
    /\ pc' = "done"
    /\ UNCHANGED <<it, pairs, pair_tuples, seen_pairs>>
    /\ ExtractorUnchanged

(***************************************************************************)
(* Phase 1: pipeline/filter_quality_fim_tasks.py                           *)
(***************************************************************************)
\* \s*  \s+  \w+
ReS0 == Star(Ch(SpaceCh))
ReS1 == Plus(Ch(SpaceCh))
ReW1 == Plus(Ch(WordCh))

\* the group of the first leftmost match of  open(.*?)close  (re.DOTALL), as
\* <<text>>, or <<>> when there is no match
LazyBetween(content, open, close) ==
    LET os == {i \in Occurrences(content, open) :
                  \E j \in Occurrences(content, close) : j >= i + Len(open)}
    IN  IF os = {} THEN <<>>
        ELSE LET i == SetMin(os)
                 j == SetMin({k \in Occurrences(content, close) : k >= i + Len(open)})
             IN  <<SubSeq(content, i + Len(open), j - 1)>>

\* the group of  open(.*?)$  (re.DOTALL): "$" also matches before a final newline
LazyToEnd(content, open) ==
    LET os == Occurrences(content, open)
    IN  IF os = {} THEN <<>>
        ELSE LET i == SetMin(os)
                 e == IF Len(content) >= i + Len(open) /\ content[Len(content)] = "\n"
                      THEN Len(content) - 1 ELSE Len(content)
             IN  <<SubSeq(content, i + Len(open), e)>>

\* a dict with the keys among prefix, suffix, middle whose pattern matched
extract_fim_parts(content) ==
    LET p == LazyBetween(content, <<"<","f","i","m","_","p","r","e","f","i","x",">">>, <<"<","f","i","m","_","s","u","f","f","i","x",">">>)
        s == LazyBetween(content, <<"<","f","i","m","_","s","u","f","f","i","x",">">>, <<"<","f","i","m","_","m","i","d","d","l","e",">">>)
        m == LazyToEnd(content, <<"<","f","i","m","_","m","i","d","d","l","e",">">>)
    IN  [k \in (IF p # <<>> THEN {"prefix"} ELSE {})
               \cup (IF s # <<>> THEN {"suffix"} ELSE {})
               \cup (IF m # <<>> THEN {"middle"} ELSE {})
          |-> IF k = "prefix" THEN p[1] ELSE IF k = "suffix" THEN s[1] ELSE m[1]]

\* parts.get(key, '')
PartsGet(parts, key) == IF key \in DOMAIN parts THEN parts[key] ELSE <<>>

\* str.lower()
LowerOf ==
    [c \in Upper |->
        CASE c = "A" -> "a" [] c = "B" -> "b" [] c = "C" -> "c" [] c = "D" -> "d"
          [] c = "E" -> "e" [] c = "F" -> "f" [] c = "G" -> "g" [] c = "H" -> "h"
          [] c = "I" -> "i" [] c = "J" -> "j" [] c = "K" -> "k" [] c = "L" -> "l"
          [] c = "M" -> "m" [] c = "N" -> "n" [] c = "O" -> "o" [] c = "P" -> "p"
          [] c = "Q" -> "q" [] c = "R" -> "r" [] c = "S" -> "s" [] c = "T" -> "t"
          [] c = "U" -> "u" [] c = "V" -> "v" [] c = "W" -> "w" [] c = "X" -> "x"
          [] c = "Y" -> "y" [] c = "Z" -> "z"]
ToLower(s) == AsTuple([i \in DOMAIN s |-> IF s[i] \in Upper THEN LowerOf[s[i]] ELSE s[i]])

\* any(re.match(p, s) for p in patterns), any(re.search(p, s) for p in patterns)
AnyMatch(patterns, s) == \E k \in DOMAIN patterns : ReMatch(patterns[k], s)
AnySearch(patterns, s) == \E k \in DOMAIN patterns : ReSearch(patterns[k], s)
\* any(w in s for w in words)
AnyIn(words, s) == \E k \in DOMAIN words : Contains(s, words[k])

\* ^[\s\{\}\[\]\(\);,\.]+$
ReOnlySymbols1 == Cat(<<Bos, Plus(Ch(SpaceCh \cup {"{","}","[","]","(",")",";",",","."})), Eos>>)
\* ^[\s}]+$
ReOnlyCloseBrace == Cat(<<Bos, Plus(Ch(SpaceCh \cup {"}"})), Eos>>)

\* meaningless_patterns
MeaninglessPatterns == <<
    Cat(<<Bos, Plus(Ch({";", ","})), Eos>>),
    Cat(<<Bos, ReS0, Ch({")"}), ReS0, Star(Ch({";", "{"})), ReS0, Eos>>),
    Cat(<<Bos, ReS0, Lit(<<"e","l","s","e">>), ReS0, Eos>>),
    Cat(<<Bos, ReS0, Lit(<<"+","+">>), ReS0, Eos>>),
    Cat(<<Bos, ReS0, Lit(<<"-","-">>), ReS0, Eos>> ) >>

\* ^\s*namespace\s+\w+\s*$
ReBareNamespace == Cat(<<Bos, ReS0, Lit(<<"n","a","m","e","s","p","a","c","e">>), ReS1, ReW1, ReS0, Eos>>)

\* \w+\s*\([^)]*\)
ReCall == Cat(<<ReW1, ReS0, Ch({"("}), Star(NotCh({")"})), Ch({")"})>>)

\* meaningful_patterns of is_meaningful_code_completion
MeaningfulPatterns == <<
    ReCall,
    Cat(<<Lit(<<"c","l","a","s","s">>), ReS1, ReW1>>),
    Cat(<<Lit(<<"s","t","r","u","c","t">>), ReS1, ReW1>>),
    Cat(<<ReW1, ReS0, Ch({"="}), ReS0, ReW1>>),
    Cat(<<Lit(<<"i","f">>), ReS0, Ch({"("})>>),
    Cat(<<Lit(<<"f","o","r">>), ReS0, Ch({"("})>>),
    Cat(<<Lit(<<"w","h","i","l","e">>), ReS0, Ch({"("})>>),
    Cat(<<Lit(<<"r","e","t","u","r","n">>), ReS1>>),
    Cat(<<Lit(<<"#","i","n","c","l","u","d","e">>), ReS0, Ch({"<", "\""})>>),
    Cat(<<Lit(<<"u","s","i","n","g">>), ReS1, Lit(<<"n","a","m","e","s","p","a","c","e">>)>>),
    Lit(<<"p","u","b","l","i","c",":">>),
    Lit(<<"p","r","i","v","a","t","e",":">>),
    Lit(<<"p","r","o","t","e","c","t","e","d",":">>),
    Cat(<<ReW1, Lit(<<":",":">>), ReW1>>) >>

\* \b(int|double|float|char|bool|void|const|static|virtual|inline)\b
ReTypeWord ==
    Cat(<<Wb, Alt(<<Lit(<<"i","n","t">>), Lit(<<"d","o","u","b","l","e">>), Lit(<<"f","l","o","a","t">>), Lit(<<"c","h","a","r">>), Lit(<<"b","o","o","l">>),
                    Lit(<<"v","o","i","d">>), Lit(<<"c","o","n","s","t">>), Lit(<<"s","t","a","t","i","c">>), Lit(<<"v","i","r","t","u","a","l">>), Lit(<<"i","n","l","i","n","e">>)>>), Wb>>)

\* cpp_keywords
CppKeywords == <<<<"c","o","n","s","t">>, <<"s","t","a","t","i","c">>, <<"v","i","r","t","u","a","l">>, <<"o","v","e","r","r","i","d","e">>, <<"p","u","b","l","i","c">>, <<"p","r","i","v","a","t","e">>, <<"p","r","o","t","e","c","t","e","d">>,
                 <<"c","l","a","s","s">>, <<"s","t","r","u","c","t">>, <<"e","n","u","m">>, <<"t","y","p","e","d","e","f">>, <<"t","e","m","p","l","a","t","e">>, <<"t","y","p","e","n","a","m","e">>, <<"n","a","m","e","s","p","a","c","e">>>>

\* \bTB[A-Z]+\b
ReTB == Cat(<<Wb, Lit(<<"T","B">>), Plus(Ch(Upper)), Wb>>)

\* the lines of the middle that are neither blank nor comments
NonCommentLines(middle) ==
    SelectSeq(SplitLines(middle),
              LAMBDA l : Strip(l) # <<>> /\ ~StartsWith(Strip(l), <<"/","/">>)
                         /\ ~StartsWith(Strip(l), <<"/","*">>) /\ ~StartsWith(Strip(l), <<"*">>))

is_meaningful_code_completion(middle, prefix) ==
    LET middle_stripped == Strip(middle)
    IN  IF middle = <<>> \/ middle_stripped = <<>> THEN FALSE
        ELSE IF Len(middle_stripped) < 5 THEN FALSE
        ELSE IF ReMatch(ReOnlySymbols1, middle_stripped) THEN FALSE
        ELSE IF ReMatch(ReOnlyCloseBrace, middle_stripped) \/ middle_stripped = <<"r","e","t","u","r","n",";">> THEN FALSE
        ELSE IF AnyMatch(MeaninglessPatterns, middle_stripped) THEN FALSE
        ELSE IF StartsWith(middle_stripped, <<"#">>)
                /\ ~AnyIn(<<<<"#","i","n","c","l","u","d","e">>, <<"#","d","e","f","i","n","e">>, <<"#","i","f","n","d","e","f">>, <<"#","i","f","d","e","f">>>>, middle_stripped) THEN FALSE
        ELSE IF NonCommentLines(middle) = <<>> THEN FALSE
        ELSE IF ReMatch(ReBareNamespace, middle_stripped) THEN FALSE
        ELSE IF AnySearch(MeaningfulPatterns, middle_stripped) THEN TRUE
        ELSE IF ReSearch(ReTypeWord, middle_stripped) THEN TRUE
        ELSE IF AnyIn(CppKeywords, middle_stripped) THEN TRUE
        ELSE IF ReSearch(ReTB, middle_stripped) \/ Contains(middle_stripped, <<"t","b","r","i","c","k","s",":",":">>) THEN TRUE
        ELSE FALSE

\* logical_continuations: the pattern for the prefix's last line and the check
\* on the stripped middle, of each rule
ContinuationPatterns == <<
    Cat(<<Lit(<<"#","i","n","c","l","u","d","e">>), ReS0, Ch({"<", "\""})>>),
    Cat(<<Lit(<<"n","a","m","e","s","p","a","c","e">>), ReS1, ReW1>>),
    Cat(<<Alt(<<Lit(<<"c","l","a","s","s">>), Lit(<<"s","t","r","u","c","t">>)>>), ReS1, ReW1>>),
    Cat(<<ReW1, ReS0, Ch({"("}), Star(NotCh({")"})), Ch({")"}), ReS0, Opt(Lit(<<"c","o","n","s","t">>)), ReS0, Eos>>),
    Cat(<<Alt(<<Lit(<<"p","u","b","l","i","c">>), Lit(<<"p","r","i","v","a","t","e">>), Lit(<<"p","r","o","t","e","c","t","e","d">>)>>), ReS0, Ch({":"})>>) >>

ContinuationCheck(k, m) ==
    CASE k = 1 -> Contains(m, <<"#","i","n","c","l","u","d","e">>) \/ Contains(m, <<"n","a","m","e","s","p","a","c","e">>) \/ Contains(m, <<"u","s","i","n","g">>)
      [] k = 2 -> Contains(m, <<"{">>) \/ AnyIn(<<<<"c","l","a","s","s">>, <<"s","t","r","u","c","t">>, <<"e","n","u","m">>, <<"v","o","i","d">>, <<"i","n","t">>>>, m)
      [] k = 3 -> Contains(m, <<"{">>) \/ Contains(m, <<":">>) \/ Contains(m, <<"p","u","b","l","i","c">>) \/ Contains(m, <<"p","r","i","v","a","t","e">>)
      [] k = 4 -> Contains(m, <<"{">>) \/ AnyIn(<<<<"r","e","t","u","r","n">>, <<"i","f">>, <<"f","o","r">>, <<"w","h","i","l","e">>>>, m)
      [] k = 5 -> AnyIn(<<<<"v","o","i","d">>, <<"i","n","t">>, <<"d","o","u","b","l","e">>, <<"v","i","r","t","u","a","l">>, <<"s","t","a","t","i","c">>, <<"c","o","n","s","t">>>>, m)

\* has_logical_context_flow that says no when a rule matches the last line of
\* the prefix and the check of no matching rule accepts the middle
has_logical_context_flow_checked(prefix, middle, suffix) ==
    LET prefix_lines == SplitLines(Strip(prefix))
        last_prefix_line == Strip(prefix_lines[Len(prefix_lines)])
        middle_stripped == Strip(middle)
        matching == {k \in DOMAIN ContinuationPatterns :
                        ReSearch(ContinuationPatterns[k], last_prefix_line)}
    IN  matching = {} \/ \E k \in matching : ContinuationCheck(k, middle_stripped)

has_logical_context_flow(prefix, middle, suffix) ==
    LET prefix_lines == SplitLines(Strip(prefix))
        last_prefix_line == Strip(prefix_lines[Len(prefix_lines)])
        middle_stripped == Strip(middle)
    IN  IF prefix_lines = <<>> THEN FALSE
        ELSE IF \E k \in DOMAIN ContinuationPatterns :
                    ReSearch(ContinuationPatterns[k], last_prefix_line)
                    /\ ContinuationCheck(k, middle_stripped)
             THEN TRUE
             ELSE TRUE

\* the first line of the prefix whose strip() is not empty, stripped; <<>> if none
FirstMeaningfulLine(ls) ==
    LET ks == {k \in DOMAIN ls : Strip(ls[k]) # <<>>}
    IN  IF ks = {} THEN <<>> ELSE Strip(ls[SetMin(ks)])

\* len(lines[0]) - len(lines[0].lstrip())
LeadingSpaces(ls) == Len(ls[1]) - Len(LStrip(ls[1]))

\* incomplete_control_patterns
IncompleteControlPatterns == <<
    Cat(<<Bos, Lit(<<"i","f">>), ReS0, Ch({"("})>>),
    Cat(<<Bos, Lit(<<"e","l","s","e">>), ReS0, Eos>>),
    Cat(<<Bos, Lit(<<"e","l","s","e">>), ReS0, Lit(<<"i","f">>), ReS0, Ch({"("})>>),
    Cat(<<Bos, Lit(<<"f","o","r">>), ReS0, Ch({"("})>>),
    Cat(<<Bos, Lit(<<"w","h","i","l","e">>), ReS0, Ch({"("})>>),
    Cat(<<Bos, Lit(<<"s","w","i","t","c","h">>), ReS0, Ch({"("})>>),
    Cat(<<Bos, Lit(<<"c","a","t","c","h">>), ReS0, Ch({"("})>>),
    Cat(<<Bos, Lit(<<"t","r","y">>), ReS0, Eos>>),
    Cat(<<Bos, Lit(<<"r","e","t","u","r","n">>), ReS0, Star(NotCh({";"})), Eos>>) >>

\* ^\w+$
ReSingleWord == Cat(<<Bos, ReW1, Eos>>)

\* ^[\w:<>~]+.*\w+\s*\([^)]*\)
ReFunctionSignature ==
    Cat(<<Bos, Plus(Ch(WordCh \cup {":", "<", ">", "~"})), Star(Dot), ReW1, ReS0,
          Ch({"("}), Star(NotCh({")"})), Ch({")"})>>)

\* ^[A-Z_]+\(
ReMacroCall == Cat(<<Bos, Plus(Ch(Upper \cup {"_"})), Ch({"("})>>)

\* ^(const\s+)?(static\s+)?(virtual\s+)?[\w:<>]+\s+\w+\s*[=;]
ReVariableDeclaration ==
    Cat(<<Bos, Opt(Cat(<<Lit(<<"c","o","n","s","t">>), ReS1>>)), Opt(Cat(<<Lit(<<"s","t","a","t","i","c">>), ReS1>>)),
          Opt(Cat(<<Lit(<<"v","i","r","t","u","a","l">>), ReS1>>)), Plus(Ch(WordCh \cup {":", "<", ">"})), ReS1, ReW1,
          ReS0, Ch({"=", ";"})>>)

\* meaningful_complete_patterns
MeaningfulCompletePatterns == <<
    Cat(<<Bos, Ch({"#"}), ReW1>>),
    Cat(<<Bos, ReW1, ReS1, ReW1, Star(Dot), Ch({";", "{"}), Eos>>),
    Cat(<<Bos, Lit(<<"t","y","p","e","d","e","f">>), ReS1>>),
    Cat(<<Bos, Lit(<<"t","e","m","p","l","a","t","e">>), ReS0, Ch({"<"})>>),
    Cat(<<Bos, ReW1, Lit(<<":",":">>), ReW1>>) >>

starts_with_complete_code_line(prefix) ==
    IF prefix = <<>> \/ Strip(prefix) = <<>> THEN FALSE
    ELSE LET ls == SplitLines(prefix)
             first_line == FirstMeaningfulLine(ls)
         IN  IF first_line = <<>> THEN FALSE
             ELSE IF LeadingSpaces(ls) > 4 THEN FALSE
             ELSE IF AnyMatch(IncompleteControlPatterns, first_line) THEN FALSE
             ELSE IF ReMatch(ReOnlyBrackets, first_line) THEN FALSE
             ELSE IF ReMatch(ReSingleWord, first_line) THEN FALSE
             ELSE IF StartsWith(first_line, <<"#","i","n","c","l","u","d","e">>)
                     /\ (\/ EndsWith(first_line, <<".","h","\"">>) \/ EndsWith(first_line, <<".","h","p","p","\"">>)
                         \/ EndsWith(first_line, <<">">>) \/ Contains(first_line, <<"\"">>)) THEN TRUE
             ELSE IF StartsWith(first_line, <<"#","p","r","a","g","m","a">>) THEN TRUE
             ELSE IF \/ StartsWith(first_line, <<"#","i","f","n","d","e","f">>) \/ StartsWith(first_line, <<"#","i","f","d","e","f">>)
                     \/ StartsWith(first_line, <<"#","d","e","f","i","n","e">>) THEN TRUE
             ELSE IF StartsWith(first_line, <<"n","a","m","e","s","p","a","c","e"," ">>) \/ StartsWith(first_line, <<"u","s","i","n","g"," ">>) THEN TRUE
             ELSE IF \/ StartsWith(first_line, <<"c","l","a","s","s"," ">>) \/ StartsWith(first_line, <<"s","t","r","u","c","t"," ">>)
                     \/ StartsWith(first_line, <<"e","n","u","m"," ">>) THEN TRUE
             ELSE IF ReMatch(ReFunctionSignature, first_line) THEN TRUE
             ELSE IF \/ ReMatch(ReMacroCall, first_line) \/ StartsWith(first_line, <<"a","u","t","o"," ">>)
                     \/ StartsWith(first_line, <<"c","o","n","s","t"," ">>) \/ StartsWith(first_line, <<"s","t","a","t","i","c"," ">>) THEN FALSE
             ELSE IF Contains(first_line, <<":",":">>) /\ Contains(first_line, <<"(">>)
                     /\ ~StartsWith(first_line, <<"#">>) THEN FALSE
             ELSE IF ReMatch(ReVariableDeclaration, first_line) THEN FALSE
             ELSE IF RStripChars(first_line, {":"}) \in {<<"p","u","b","l","i","c">>, <<"p","r","i","v","a","t","e">>, <<"p","r","o","t","e","c","t","e","d">>} THEN FALSE
             ELSE IF AnyMatch(MeaningfulCompletePatterns, first_line) THEN TRUE
             ELSE FALSE

\* the bonus for the length of the stripped middle, in thousandths
LengthBonus(middle) ==
    LET middle_len == Len(Strip(middle))
    IN  IF 10 <= middle_len /\ middle_len <= 200 THEN 200
        ELSE IF 5 <= middle_len /\ middle_len <= 300 THEN 100
        ELSE 0

\* 'tbricks' in middle.lower() or re.search(r'\bTB[A-Z]+\b', middle)
HasDomainToken(middle) == Contains(ToLower(middle), <<"t","b","r","i","c","k","s">>) \/ ReSearch(ReTB, middle)

\* meaningful_constructs
MeaningfulConstructs == <<<<"c","l","a","s","s">>, <<"s","t","r","u","c","t">>, <<"n","a","m","e","s","p","a","c","e">>, <<"p","u","b","l","i","c",":">>, <<"p","r","i","v","a","t","e",":">>, <<"v","i","r","t","u","a","l">>, <<"c","o","n","s","t">>>>

Min2(a, b) == IF a <= b THEN a ELSE b
Max2(a, b) == IF a >= b THEN a ELSE b

\* the score of calculate_quality_score, in thousandths
calculate_quality_score(parts) ==
    LET prefix == PartsGet(parts, "prefix")
        middle == PartsGet(parts, "middle")
        suffix == PartsGet(parts, "suffix")
    IN  IF ~starts_with_complete_code_line(prefix) THEN 0
        ELSE Min2((IF is_meaningful_code_completion(middle, prefix) THEN 400 ELSE 0)
                  + (IF has_logical_context_flow(prefix, middle, suffix) THEN 200 ELSE 0)
                  + LengthBonus(middle)
                  + (IF HasDomainToken(middle) THEN 100 ELSE 0)
                  + (IF AnyIn(MeaningfulConstructs, middle) THEN 100 ELSE 0),
                  1000)

\* a threshold low enough for the score of an empty middle (0.2) to pass
quality_threshold_low == 500 - 300
quality_threshold == 500

(***************************************************************************)
(* Phase 2: apply_middle_content_filter.py                                 *)
(***************************************************************************)
\* the group of  <fim_middle>(.*?)(?:<|$)  (re.DOTALL): the text after the
\* first marker up to the first "<" after it, or to the end
MiddleUpToAngle(content) ==
    LET os == Occurrences(content, <<"<","f","i","m","_","m","i","d","d","l","e",">">>)
    IN  IF os = {} THEN <<>>
        ELSE LET from == SetMin(os) + Len(<<"<","f","i","m","_","m","i","d","d","l","e",">">>)
                 angles == {k \in from..Len(content) : content[k] = "<"}
                 e == IF angles # {} THEN SetMin(angles) - 1
                      ELSE IF Len(content) >= from /\ content[Len(content)] = "\n"
                           THEN Len(content) - 1
                           ELSE Len(content)
             IN  <<SubSeq(content, from, e)>>

extract_fim_middle(content) ==
    LET match == MiddleUpToAngle(content)
    IN  IF match # <<>> THEN Strip(match[1]) ELSE <<>>

\* content.endswith((',', '::', '->', '.', '('))
EndsIncomplete(content) ==
    \/ EndsWith(content, <<",">>) \/ EndsWith(content, <<":",":">>) \/ EndsWith(content, <<"-",">">>)
    \/ EndsWith(content, <<".">>) \/ EndsWith(content, <<"(">>)

\* meaningful_patterns of calculate_middle_quality_score
MiddlePatterns == <<
    ReCall,
    Cat(<<ReW1, ReS0, Ch({"="}), ReS0>>),
    Cat(<<Lit(<<"r","e","t","u","r","n">>), ReS1>>),
    Cat(<<Lit(<<"i","f">>), ReS0, Ch({"("})>>),
    Cat(<<Lit(<<"f","o","r">>), ReS0, Ch({"("})>>),
    Cat(<<Lit(<<"w","h","i","l","e">>), ReS0, Ch({"("})>>) >>

\* ^[{}\(\)\[\];,\s]*$
RePureSymbols == Cat(<<Bos, Star(Ch(SpaceCh \cup {"{","}","(",")","[","]",";",","})), Eos>>)

\* min(max(score, 0.0), 1.0), in thousandths
Clamp01(score) == Min2(Max2(score, 0), 1000)

calculate_middle_quality_score(middle_content) ==
    IF middle_content = <<>> THEN 0
    ELSE LET content == Strip(middle_content)
             length == Len(content)
         IN  Clamp01(600
                     + (IF 10 <= length /\ length <= 100 THEN 200
                        ELSE IF 5 <= length /\ length <= 200 THEN 100 ELSE 0)
                     + (IF ~EndsIncomplete(content) THEN 100 ELSE 0)
                     + (IF AnySearch(MiddlePatterns, content) THEN 50 ELSE 0)
                     - (IF ReMatch(RePureSymbols, content) THEN 300 ELSE 0))

\* ^\s*(public|private|protected)\s*:\s*$
ReAccessSpecifier ==
    Cat(<<Bos, ReS0, Alt(<<Lit(<<"p","u","b","l","i","c">>), Lit(<<"p","r","i","v","a","t","e">>), Lit(<<"p","r","o","t","e","c","t","e","d">>)>>), ReS0, Ch({":"}), ReS0, Eos>>)

\* <<should_reject, reason>>
should_reject_middle(middle_content) ==
    IF middle_content = <<>> THEN <<TRUE, "empty">>
    ELSE LET content == Strip(middle_content)
         IN  IF EndsWith(content, <<",">>) THEN <<TRUE, "incomplete_comma">>
             ELSE IF ReMatch(ReAccessSpecifier, content) THEN <<TRUE, "standalone_access_specifier">>
             ELSE IF Len(content) <= 2 THEN <<TRUE, "too_short">>
             ELSE IF ReMatch(RePureSymbols, content) THEN <<TRUE, "pure_symbols">>
             ELSE IF (\/ EndsWith(content, <<":",":">>) \/ EndsWith(content, <<"-",">">>)
                      \/ EndsWith(content, <<".">>) \/ EndsWith(content, <<"(">>))
                     /\ Len(content) < 15 THEN <<TRUE, "incomplete_scope">>
             ELSE <<FALSE, "acceptable">>

(***************************************************************************)
(* Phase 3: pipeline/apply_phase3b_improved_filter.py                      *)
(***************************************************************************)
\* <<prefix, middle>>
extract_fim_components(content) ==
    LET prefix_match == LazyBetween(content, <<"<","f","i","m","_","p","r","e","f","i","x",">">>, <<"<","f","i","m","_","s","u","f","f","i","x",">">>)
        middle_match == MiddleUpToAngle(content)
    IN  << IF prefix_match # <<>> THEN Strip(prefix_match[1]) ELSE <<>>,
           IF middle_match # <<>> THEN Strip(middle_match[1]) ELSE <<>> >>

\* the part of the length score that depends on the two lengths, in thousandths
PrefixLengthPoints(prefix_len) ==
    IF 200 <= prefix_len /\ prefix_len <= 1000 THEN 200
    ELSE IF 100 <= prefix_len /\ prefix_len <= 2000 THEN 100
    ELSE IF prefix_len < 50 \/ prefix_len > 5000 THEN -200
    ELSE 0

MiddleLengthPoints(middle_len) ==
    IF 20 <= middle_len /\ middle_len <= 150 THEN 200
    ELSE IF 10 <= middle_len /\ middle_len <= 300 THEN 100
    ELSE IF middle_len < 8 \/ middle_len > 400 THEN -200
    ELSE 0

\* the ratio points: ratio = middle_len / prefix_len is compared with
\* optimal_ratio and max_good_ratio (hundredths) by cross-multiplication
RatioPoints(prefix_len, middle_len) ==
    LET optimal == IF prefix_len <= 150 THEN 40 ELSE IF prefix_len <= 300 THEN 30
                   ELSE IF prefix_len <= 500 THEN 25 ELSE 20
        max_good == IF prefix_len <= 150 THEN 80 ELSE IF prefix_len <= 300 THEN 60
                    ELSE IF prefix_len <= 500 THEN 40 ELSE 30
    IN  IF middle_len * 100 <= optimal * prefix_len THEN 100
        ELSE IF middle_len * 100 <= max_good * prefix_len THEN 50
        ELSE -100

calculate_length_quality_score(prefix, middle) ==
    IF prefix = <<>> \/ middle = <<>> THEN 0
    ELSE Clamp01(500 + PrefixLengthPoints(Len(prefix)) + MiddleLengthPoints(Len(middle))
                 + RatioPoints(Len(prefix), Len(middle)))

\* max_ratio with the band of the longest prefixes given the ceiling of the
\* band below it
MaxRatioPercentMerged(prefix_len) ==
    IF prefix_len <= 150 THEN 120
    ELSE IF prefix_len <= 300 THEN 80
    ELSE 60

\* max_ratio * 100 for a prefix length
MaxRatioPercent(prefix_len) ==
    IF prefix_len <= 150 THEN 120
    ELSE IF prefix_len <= 300 THEN 80
    ELSE IF prefix_len <= 500 THEN 60
    ELSE 40

\* str.isalnum() of one character
IsAlnum(c) == c \in Lower \cup Upper \cup Digit

\* f"ratio_too_large_{int(max_ratio*100)}"
RatioReason(percent) ==
    CASE percent = 120 -> "ratio_too_large_120"
      [] percent = 80 -> "ratio_too_large_80"
      [] percent = 60 -> "ratio_too_large_60"
      [] percent = 40 -> "ratio_too_large_40"

\* <<should_reject, reason>>
should_reject_improved(prefix, middle) ==
    IF prefix = <<>> \/ middle = <<>> THEN <<TRUE, "missing_components">>
    ELSE LET prefix_len == Len(prefix)
             middle_len == Len(middle)
             middle_stripped == Strip(middle)
         IN  IF prefix_len < 50 THEN <<TRUE, "prefix_too_short">>
             ELSE IF prefix_len > 5000 THEN <<TRUE, "prefix_too_long">>
             ELSE IF middle_len < 8 THEN <<TRUE, "middle_too_short">>
             ELSE IF middle_len > 400 THEN <<TRUE, "middle_too_long">>
             ELSE IF middle_len * 100 > MaxRatioPercent(prefix_len) * prefix_len
                  THEN <<TRUE, RatioReason(MaxRatioPercent(prefix_len))>>
             ELSE IF middle_len * 100 < prefix_len THEN <<TRUE, "ratio_too_small">>
             ELSE IF /\ middle_stripped # <<>>
                     /\ IsAlnum(middle_stripped[Len(middle_stripped)])
                     /\ ~Contains(middle_stripped, <<" ">>)
                     /\ Len(middle_stripped) < 15 THEN <<TRUE, "incomplete_word">>
             ELSE IF prefix_len < 80 /\ middle_len > 200 THEN <<TRUE, "short_prefix_very_long_middle">>
             ELSE IF Len(middle_stripped) * 10 < middle_len * 3 THEN <<TRUE, "mostly_whitespace">>
             ELSE <<FALSE, "acceptable">>

(***************************************************************************)
(* Composite scorer: pipeline/calculate_comprehensive_quality_scores.py    *)
(***************************************************************************)
\* is_meaningful_code_completion of the composite scorer
composite_is_meaningful_code_completion(middle, prefix) ==
    LET middle_stripped == Strip(middle)
    IN  IF middle = <<>> \/ middle_stripped = <<>> THEN FALSE
        ELSE IF Len(middle_stripped) < 5 THEN FALSE
        ELSE IF ReMatch(ReOnlySymbols1, middle_stripped) THEN FALSE
        ELSE IF ReMatch(ReOnlyCloseBrace, middle_stripped) \/ middle_stripped = <<"r","e","t","u","r","n",";">> THEN FALSE
        ELSE IF AnyMatch(MeaninglessPatterns, middle_stripped) THEN FALSE
        ELSE AnySearch(MeaningfulPatterns, middle_stripped)

\* meaningful_starts
MeaningfulStarts == <<
    Cat(<<Bos, Lit(<<"#","i","n","c","l","u","d","e">>)>>),
    Cat(<<Bos, Lit(<<"#","p","r","a","g","m","a">>)>>),
    Cat(<<Bos, Lit(<<"#","i","f","n","d","e","f">>)>>),
    Cat(<<Bos, Lit(<<"#","i","f","d","e","f">>)>>),
    Cat(<<Bos, Lit(<<"#","d","e","f","i","n","e">>)>>),
    Cat(<<Bos, Lit(<<"n","a","m","e","s","p","a","c","e">>), ReS1>>),
    Cat(<<Bos, Lit(<<"u","s","i","n","g">>), ReS1>>),
    Cat(<<Bos, Lit(<<"c","l","a","s","s">>), ReS1>>),
    Cat(<<Bos, Lit(<<"s","t","r","u","c","t">>), ReS1>>),
    Cat(<<Bos, Lit(<<"e","n","u","m">>), ReS1>>) >>

\* starts_with_complete_code_line of the composite scorer
composite_starts_with_complete_code_line(prefix) ==
    IF prefix = <<>> \/ Strip(prefix) = <<>> THEN FALSE
    ELSE LET ls == SplitLines(prefix)
             first_line == FirstMeaningfulLine(ls)
         IN  IF first_line = <<>> THEN FALSE
             ELSE IF LeadingSpaces(ls) > 4 THEN FALSE
             ELSE IF AnyMatch(MeaningfulStarts, first_line) THEN TRUE
             ELSE ReMatch(ReFunctionSignature, first_line)

calculate_phase1_score(parts) ==
    LET prefix == PartsGet(parts, "prefix")
        middle == PartsGet(parts, "middle")
        suffix == PartsGet(parts, "suffix")
    IN  IF ~composite_starts_with_complete_code_line(prefix) THEN 0
        ELSE Min2((IF composite_is_meaningful_code_completion(middle, prefix) THEN 400 ELSE 0)
                  + (IF has_logical_context_flow(prefix, middle, suffix) THEN 200 ELSE 0)
                  + LengthBonus(middle)
                  + (IF HasDomainToken(middle) THEN 100 ELSE 0)
                  + (IF AnyIn(MeaningfulConstructs, middle) THEN 100 ELSE 0),
                  1000)

calculate_phase2_score(middle) == calculate_middle_quality_score(middle)

calculate_phase3_score(prefix, middle) == calculate_length_quality_score(prefix, middle)

\* 0.5 * phase1 + 0.3 * phase2 + 0.2 * phase3, clamped; scores in thousandths
\* the three scores added up without their weights and without the clamp
calculate_composite_score_unweighted(phase1_score, phase2_score, phase3_score) ==
    phase1_score + phase2_score + phase3_score

calculate_composite_score(phase1_score, phase2_score, phase3_score) ==
    Clamp01((500 * phase1_score + 300 * phase2_score + 200 * phase3_score) \div 1000)

\* the tiers with the medium threshold at 0.7 and the acceptable one at 0.5
QualityTierShifted(composite_score) ==
    IF composite_score >= 800 THEN "high_quality"
    ELSE IF composite_score >= 700 THEN "medium_quality"
    ELSE IF composite_score >= 500 THEN "acceptable_quality"
    ELSE "low_quality"

\* the quality tier of a composite score
QualityTier(composite_score) ==
    IF composite_score >= 800 THEN "high_quality"
    ELSE IF composite_score >= 600 THEN "medium_quality"
    ELSE IF composite_score >= 400 THEN "acceptable_quality"
    ELSE "low_quality"


(***************************************************************************)
(* JSON lines.  A line of a .jsonl file is blank, malformed JSON, a JSON   *)
(* value that is not an object, or an object; the string under "content"   *)
(* is kept as json.dumps writes it, one token per character, a two-        *)
(* character escape for a quote, a backslash and the control characters.   *)
(***************************************************************************)
JsonEscape(s) ==
    AsTuple([i \in DOMAIN s |->
        CASE s[i] = "\"" -> "\\\""
          [] s[i] = "\\" -> "\\\\"
          [] s[i] = "\n" -> "\\n"
          [] s[i] = "\t" -> "\\t"
          [] s[i] = "\r" -> "\\r"
          [] s[i] = "\f" -> "\\f"
          [] OTHER -> s[i]])

JsonUnescape(t) ==
    AsTuple([i \in DOMAIN t |->
        CASE t[i] = "\\\"" -> "\""
          [] t[i] = "\\\\" -> "\\"
          [] t[i] = "\\n" -> "\n"
          [] t[i] = "\\t" -> "\t"
          [] t[i] = "\\r" -> "\r"
          [] t[i] = "\\f" -> "\f"
          [] OTHER -> t[i]])

\* json.dumps(task, ensure_ascii=False) + '\n'
json_dumps(data) ==
    [kind |-> "object",
     obj  |-> [k \in DOMAIN data |-> IF k = "content" THEN JsonEscape(data[k]) ELSE data[k]]]

\* json.loads(line) of a line holding an object
json_loads(line) ==
    [k \in DOMAIN line.obj |-> IF k = "content" THEN JsonUnescape(line.obj[k]) ELSE line.obj[k]]

\* dict.get(key, default)
DictGet(data, key, default) == IF key \in DOMAIN data THEN data[key] ELSE default

\* data[key] = value
DictSet(data, key, value) ==
    [k \in DOMAIN data \cup {key} |-> IF k = key THEN value ELSE data[k]]

(***************************************************************************)
(* The stage runs.  Each filter reads the file the previous stage wrote    *)
(* (mode "chain"); a phase filter can also be run again on the file it     *)
(* wrote itself (mode "rerun"), its output then going to a file of its     *)
(* own.                                                                    *)
(***************************************************************************)
Stages == {"phase1", "phase2", "phase3", "composite"}

InputFile ==
    [phase1 |-> "extracted", phase2 |-> "phase1", phase3 |-> "phase2", composite |-> "phase3"]

OutputFile ==
    [phase1 |-> "phase1", phase2 |-> "phase2", phase3 |-> "phase3", composite |-> "final"]

NoRun ==
    [stage |-> "none", mode |-> "chain", input |-> "none", output |-> "none", pos |-> 1,
     total |-> 0, kept |-> 0, rejected |-> 0, reasons |-> <<>>, status |-> "idle"]

PipelineUnchanged == UNCHANGED <<lines, pc, it, pairs, pair_tuples, seen_pairs>>

\* StartRun whose second run of a filter reads the filter's input file again
\* instead of the file the filter wrote
StartRunOnInput(stage, mode) ==
    /\ run.status # "running"
    /\ run.mode = "chain"
    /\ IF mode = "chain"
       THEN InputFile[stage] \in DOMAIN files /\ OutputFile[stage] \notin DOMAIN files
       ELSE stage # "composite" /\ run.stage = stage /\ run.status = "done"
    /\ LET output == IF mode = "chain" THEN OutputFile[stage] ELSE "rerun"
       IN  /\ files' = DictSet(files, output, <<>>)
           /\ run' = [NoRun EXCEPT !.stage = stage, !.mode = mode, !.input = InputFile[stage],
                                   !.output = output, !.status = "running"]
    /\ PipelineUnchanged

\* open(input_file, 'r'), open(output_file, 'w') and the zeroed counters
StartRun(stage, mode) ==
    /\ run.status # "running"
    /\ run.mode = "chain"
    /\ IF mode = "chain"
       THEN InputFile[stage] \in DOMAIN files /\ OutputFile[stage] \notin DOMAIN files
       ELSE stage # "composite" /\ run.stage = stage /\ run.status = "done"
    /\ LET input  == IF mode = "chain" THEN InputFile[stage] ELSE OutputFile[stage]
           output == IF mode = "chain" THEN OutputFile[stage] ELSE "rerun"
       IN  /\ files' = DictSet(files, output, <<>>)
           /\ run' = [NoRun EXCEPT !.stage = stage, !.mode = mode, !.input = input,
                                   !.output = output, !.status = "running"]
    /\ PipelineUnchanged

Running(stage) == run.status = "running" /\ run.stage = stage

AtLine == run.pos <= Len(files[run.input])

CurrentLine == files[run.input][run.pos]

\* stats['reasons'][reason] = stats['reasons'].get(reason, 0) + 1
Bump(reasons, reason) == DictSet(reasons, reason, DictGet(reasons, reason, 0) + 1)

Write(data) == files' = [files EXCEPT ![run.output] = Append(@, json_dumps(data))]

(***************************************************************************)
(* Phase 1: filter_quality_fim_tasks, one input line per step              *)
(***************************************************************************)
Phase1Line ==
    /\ Running("phase1")
    /\ AtLine
    /\ LET line     == CurrentLine
           counted  == [run EXCEPT !.pos = @ + 1, !.total = @ + 1]
           rejected == [counted EXCEPT !.rejected = @ + 1]
       IN  CASE line.kind = "blank" ->
                  \* if line.strip(): is false
                  run' = [run EXCEPT !.pos = @ + 1] /\ UNCHANGED files
             [] line.kind \in {"malformed", "nonobject"} ->
                  \* json.JSONDecodeError, or the AttributeError of task.get
                  run' = rejected /\ UNCHANGED files
             [] OTHER ->
                  LET task    == json_loads(line)
                      content == DictGet(task, "content", <<>>)
                      parts   == extract_fim_parts(content)
                  IN  IF ~({"prefix", "middle"} \subseteq DOMAIN parts)
                      THEN run' = rejected /\ UNCHANGED files
                      ELSE LET quality_score == calculate_quality_score(parts)
                           IN  IF quality_score >= quality_threshold
                               THEN /\ Write(DictSet(DictSet(task, "quality_score", quality_score),
                                                     "quality_phase", "phase1_context_quality"))
                                    /\ run' = [counted EXCEPT !.kept = @ + 1]
                               ELSE run' = rejected /\ UNCHANGED files
    /\ PipelineUnchanged

\* the summary divides good_count by total_count
Phase1Summary ==
    /\ Running("phase1")
    /\ ~AtLine
    /\ run' = [run EXCEPT !.status = IF run.total = 0 THEN "crashed" ELSE "done"]
    /\ UNCHANGED files
    /\ PipelineUnchanged

(***************************************************************************)
(* Phase 2: filter_dataset, one input line per step                        *)
(***************************************************************************)
\* Phase 2's record built afresh from content and the Phase 2 fields alone
Phase2AnnotationsFresh(data, middle, reason) ==
    [content |-> DictGet(data, "content", <<>>),
     quality_phase2 |-> "passed_middle_content_filter",
     quality_middle_reason |-> reason,
     quality_middle_score |-> calculate_middle_quality_score(middle)]

Phase2Annotations(data, middle, reason) ==
    DictSet(DictSet(DictSet(data, "quality_phase2", "passed_middle_content_filter"),
                    "quality_middle_reason", reason),
            "quality_middle_score", calculate_middle_quality_score(middle))

\* Phase2Line whose json.JSONDecodeError handler is missing: the error
\* reaches the outer except, which prints and returns
Phase2LineStoppingOnJsonError ==
    /\ Running("phase2")
    /\ AtLine
    /\ LET line    == CurrentLine
           counted == [run EXCEPT !.pos = @ + 1, !.total = @ + 1]
       IN  CASE line.kind = "blank" ->
                  run' = [run EXCEPT !.pos = @ + 1] /\ UNCHANGED files
             [] line.kind \in {"malformed", "nonobject"} ->
                  run' = [counted EXCEPT !.status = "aborted"] /\ UNCHANGED files
             [] OTHER ->
                  LET data    == json_loads(line)
                      content == DictGet(data, "content", <<>>)
                      middle  == extract_fim_middle(content)
                      verdict == should_reject_middle(middle)
                  IN  IF verdict[1]
                      THEN /\ run' = [counted EXCEPT !.rejected = @ + 1,
                                                     !.reasons = Bump(@, verdict[2])]
                           /\ UNCHANGED files
                      ELSE /\ Write(Phase2Annotations(data, middle, verdict[2]))
                           /\ run' = [counted EXCEPT !.kept = @ + 1]
    /\ PipelineUnchanged

Phase2Line ==
    /\ Running("phase2")
    /\ AtLine
    /\ LET line    == CurrentLine
           counted == [run EXCEPT !.pos = @ + 1, !.total = @ + 1]
       IN  CASE line.kind = "blank" ->
                  run' = [run EXCEPT !.pos = @ + 1] /\ UNCHANGED files
             [] line.kind = "malformed" ->
                  /\ run' = [counted EXCEPT !.rejected = @ + 1,
                                            !.reasons = Bump(@, "json_error")]
                  /\ UNCHANGED files
             [] line.kind = "nonobject" ->
                  \* data.get raises AttributeError: the outer except prints and returns
                  run' = [counted EXCEPT !.status = "aborted"] /\ UNCHANGED files
             [] OTHER ->
                  LET data    == json_loads(line)
                      content == DictGet(data, "content", <<>>)
                      middle  == extract_fim_middle(content)
                      verdict == should_reject_middle(middle)
                  IN  IF verdict[1]
                      THEN /\ run' = [counted EXCEPT !.rejected = @ + 1,
                                                     !.reasons = Bump(@, verdict[2])]
                           /\ UNCHANGED files
                      ELSE /\ Write(Phase2Annotations(data, middle, verdict[2]))
                           /\ run' = [counted EXCEPT !.kept = @ + 1]
    /\ PipelineUnchanged

\* the summary divides rejected by total
Phase2Summary ==
    /\ Running("phase2")
    /\ ~AtLine
    /\ run' = [run EXCEPT !.status = IF run.total = 0 THEN "crashed" ELSE "done"]
    /\ UNCHANGED files
    /\ PipelineUnchanged

(***************************************************************************)
(* Phase 3: filter_phase3b, one input line per step                        *)
(***************************************************************************)
\* len(middle) / len(prefix) is kept as the pair of the two lengths
Ratio(prefix, middle) == IF Len(prefix) > 0 THEN <<Len(middle), Len(prefix)>> ELSE <<0, 1>>

Phase3Annotations(data, prefix, middle, reason) ==
    [k \in DOMAIN data \cup {"quality_phase3b", "quality_length_reason", "quality_length_score",
                             "quality_prefix_length", "quality_middle_length", "quality_ratio"} |->
        CASE k = "quality_phase3b" -> "passed_length_based_filter"
          [] k = "quality_length_reason" -> reason
          [] k = "quality_length_score" -> calculate_length_quality_score(prefix, middle)
          [] k = "quality_prefix_length" -> Len(prefix)
          [] k = "quality_middle_length" -> Len(middle)
          [] k = "quality_ratio" -> Ratio(prefix, middle)
          [] OTHER -> data[k]]

Phase3Line ==
    /\ Running("phase3")
    /\ AtLine
    /\ LET line    == CurrentLine
           counted == [run EXCEPT !.pos = @ + 1, !.total = @ + 1]
       IN  CASE line.kind = "blank" ->
                  run' = [run EXCEPT !.pos = @ + 1] /\ UNCHANGED files
             [] line.kind = "malformed" ->
                  /\ run' = [counted EXCEPT !.rejected = @ + 1,
                                            !.reasons = Bump(@, "json_error")]
                  /\ UNCHANGED files
             [] line.kind = "nonobject" ->
                  run' = [counted EXCEPT !.status = "aborted"] /\ UNCHANGED files
             [] OTHER ->
                  LET data    == json_loads(line)
                      content == DictGet(data, "content", <<>>)
                      comps   == extract_fim_components(content)
                      prefix  == comps[1]
                      middle  == comps[2]
                      verdict == should_reject_improved(prefix, middle)
                  IN  IF verdict[1]
                      THEN /\ run' = [counted EXCEPT !.rejected = @ + 1,
                                                     !.reasons = Bump(@, verdict[2])]
                           /\ UNCHANGED files
                      ELSE /\ Write(Phase3Annotations(data, prefix, middle, verdict[2]))
                           /\ run' = [counted EXCEPT !.kept = @ + 1]
    /\ PipelineUnchanged

Phase3Summary ==
    /\ Running("phase3")
    /\ ~AtLine
    /\ run' = [run EXCEPT !.status = IF run.total = 0 THEN "crashed" ELSE "done"]
    /\ UNCHANGED files
    /\ PipelineUnchanged

(***************************************************************************)
(* Composite scorer: process_dataset_with_comprehensive_scores             *)
(***************************************************************************)
CompositeAnnotations(data, parts) ==
    LET prefix       == parts["prefix"]
        middle       == parts["middle"]
        phase1_score == calculate_phase1_score(parts)
        phase2_score == calculate_phase2_score(middle)
        phase3_score == calculate_phase3_score(prefix, middle)
        composite_score == calculate_composite_score(phase1_score, phase2_score, phase3_score)
    IN  [k \in DOMAIN data \cup {"quality_scores", "quality_metrics", "quality_tier"} |->
            CASE k = "quality_scores" ->
                   [phase1_context_quality |-> phase1_score,
                    phase2_middle_quality  |-> phase2_score,
                    phase3_length_quality  |-> phase3_score,
                    composite_quality      |-> composite_score]
              [] k = "quality_metrics" ->
                   [prefix_length |-> Len(prefix),
                    middle_length |-> Len(middle),
                    ratio |-> Ratio(prefix, middle),
                    has_complete_prefix |-> composite_starts_with_complete_code_line(prefix),
                    has_meaningful_completion |-> composite_is_meaningful_code_completion(middle, prefix),
                    has_logical_flow |-> has_logical_context_flow(prefix, middle, PartsGet(parts, "suffix"))]
              [] k = "quality_tier" -> QualityTier(composite_score)
              [] OTHER -> data[k]]

\* CompositeLine that writes a record only when its tier is above low_quality
CompositeLineDroppingLowQuality ==
    /\ Running("composite")
    /\ AtLine
    /\ LET line    == CurrentLine
           counted == [run EXCEPT !.pos = @ + 1, !.total = @ + 1]
       IN  CASE line.kind = "blank" ->
                  run' = [run EXCEPT !.pos = @ + 1] /\ UNCHANGED files
             [] line.kind \in {"malformed", "nonobject"} ->
                  run' = counted /\ UNCHANGED files
             [] OTHER ->
                  LET data    == json_loads(line)
                      content == DictGet(data, "content", <<>>)
                      parts   == extract_fim_parts(content)
                  IN  IF ~({"prefix", "middle"} \subseteq DOMAIN parts)
                      THEN run' = counted /\ UNCHANGED files
                      ELSE IF CompositeAnnotations(data, parts)["quality_tier"] = "low_quality"
                      THEN run' = counted /\ UNCHANGED files
                      ELSE /\ Write(CompositeAnnotations(data, parts))
                           /\ run' = [counted EXCEPT !.kept = @ + 1]
    /\ PipelineUnchanged

CompositeLine ==
    /\ Running("composite")
    /\ AtLine
    /\ LET line    == CurrentLine
           counted == [run EXCEPT !.pos = @ + 1, !.total = @ + 1]
       IN  CASE line.kind = "blank" ->
                  run' = [run EXCEPT !.pos = @ + 1] /\ UNCHANGED files
             [] line.kind \in {"malformed", "nonobject"} ->
                  run' = counted /\ UNCHANGED files
             [] OTHER ->
                  LET data    == json_loads(line)
                      content == DictGet(data, "content", <<>>)
                      parts   == extract_fim_parts(content)
                  IN  IF ~({"prefix", "middle"} \subseteq DOMAIN parts)
                      THEN run' = counted /\ UNCHANGED files
                      ELSE /\ Write(CompositeAnnotations(data, parts))
                           /\ run' = [counted EXCEPT !.kept = @ + 1]
    /\ PipelineUnchanged

CompositeSummary ==
    /\ Running("composite")
    /\ ~AtLine
    /\ run' = [run EXCEPT !.status = "done"]
    /\ UNCHANGED files
    /\ PipelineUnchanged
(***************************************************************************)
(* The extractor on every source file of at most MaxFileLines lines drawn  *)
(* from SourceLineSamples                                                  *)
(***************************************************************************)
MaxFileLines == 4

SourceLineSamples ==
    { <<"i","n","t"," ","a",";","\n">>, <<"b","(",")",";","\n">>, <<"\n">>, <<"/","/"," ","c","\n">>, <<"v","o","i","d"," ","f","(",")"," ","{","\n">>, <<"}","\n">> }

RECURSIVE SeqsUpTo(_, _)
SeqsUpTo(S, n) ==
    IF n = 0 THEN {<<>>}
    ELSE LET shorter == SeqsUpTo(S, n - 1)
         IN  shorter \cup {Append(q, x) : q \in {r \in shorter : Len(r) = n - 1}, x \in S}

InitExtract ==
    /\ lines \in SeqsUpTo(SourceLineSamples, MaxFileLines)
    /\ pc = "strategy1"
    /\ it = 1
    /\ pairs = <<>>
    /\ pair_tuples = <<>>
    /\ seen_pairs = {}
    /\ files = [extracted |-> <<>>]
    /\ run = NoRun

NextExtract ==
    \/ Strategy1Step
    \/ Strategy1End
    \/ Strategy2Step
    \/ ExtractReturn

SpecExtract == InitExtract /\ [][NextExtract]_vars


(***************************************************************************)
(* The extractor on files of preprocessor conditionals                     *)
(***************************************************************************)
DirectiveLineSamples ==
    { <<"i","n","t"," ","a",";","\n">>, <<"b","(",")",";","\n">>, <<"#","i","f"," ","X","\n">>, <<"#","e","l","s","e","\n">>, <<"#"," ","e","l","s","e","\n">>, <<"#","e","n","d","i","f","\n">> }

InitDirectives ==
    /\ lines \in SeqsUpTo(DirectiveLineSamples, MaxFileLines)
    /\ pc = "strategy1"
    /\ it = 1
    /\ pairs = <<>>
    /\ pair_tuples = <<>>
    /\ seen_pairs = {}
    /\ files = [extracted |-> <<>>]
    /\ run = NoRun

SpecDirectives == InitDirectives /\ [][NextExtract]_vars

(***************************************************************************)
(* The extractor on files of a function definition: a signature line, a    *)
(* line that is only the opening brace, statement lines, a blank line.     *)
(***************************************************************************)
FunctionLineSamples ==
    { <<"v","o","i","d"," ","f","(","i","n","t"," ","a",")","\n">>, <<"{","\n">>, <<" "," "," "," ","i","n","t"," ","a",";","\n">>, <<" "," "," "," ","b","(",")",";","\n">>, <<"\n">> }

InitFunction ==
    /\ lines \in SeqsUpTo(FunctionLineSamples, MaxFileLines)
    /\ pc = "strategy1"
    /\ it = 1
    /\ pairs = <<>>
    /\ pair_tuples = <<>>
    /\ seen_pairs = {}
    /\ files = [extracted |-> <<>>]
    /\ run = NoRun

SpecFunction == InitFunction /\ [][NextExtract]_vars

(***************************************************************************)
(* The extractor on files of statement lines that end in a blank or a tab, *)
(* blank lines, comment lines and preprocessor lines other than #include   *)
(***************************************************************************)
MixedLineSamples ==
    { <<"i","n","t"," ","a",";"," ","\n">>, <<"b","(",")",";","\t","\n">>, <<"\n">>, <<"/","/"," ","c","\n">>, <<"#","d","e","f","i","n","e"," ","X","\n">> }

InitMixed ==
    /\ lines \in SeqsUpTo(MixedLineSamples, MaxFileLines)
    /\ pc = "strategy1"
    /\ it = 1
    /\ pairs = <<>>
    /\ pair_tuples = <<>>
    /\ seen_pairs = {}
    /\ files = [extracted |-> <<>>]
    /\ run = NoRun

SpecMixed == InitMixed /\ [][NextExtract]_vars
(***************************************************************************)
(* The extractor on files of statements and of lines that only close       *)
(* something: the end of a call spread over several lines, a block end     *)
(***************************************************************************)
ClosingLineSamples ==
    { <<"i","n","t"," ","a",";","\n">>, <<"b","(",")",";","\n">>, <<")",";","\n">>, <<"}","\n">>, <<"]",",","\n">> }

InitClosing ==
    /\ lines \in SeqsUpTo(ClosingLineSamples, MaxFileLines)
    /\ pc = "strategy1"
    /\ it = 1
    /\ pairs = <<>>
    /\ pair_tuples = <<>>
    /\ seen_pairs = {}
    /\ files = [extracted |-> <<>>]
    /\ run = NoRun

SpecClosing == InitClosing /\ [][NextExtract]_vars


(***************************************************************************)
(* The chain on every extracted file of at most MaxRecords lines drawn     *)
(* from LineSamples.  The records are serialised as the extractor          *)
(* serialises a (prefix, middle) pair.                                     *)
(***************************************************************************)
MaxRecords == 2

Record(prefix, middle) == json_dumps([content |-> FimContent(prefix, middle)])

PrefixIncludes == <<"#","i","n","c","l","u","d","e"," ","\"","s","t","r","a","t","e","g","y","/","t","b","r","i","c","k","s","_","s","t","r","a","t","e","g","y",".","h","\"","\n","#","i","n","c","l","u","d","e"," ","<","v","e","c","t","o","r",">">>

PrefixStatements == <<"i","n","t"," ","a",";","\n","b","(",")",";">>

PrefixGuarded == <<"#","i","f"," ","X","\n","#","i","n","c","l","u","d","e"," ","\"","s","t","r","a","t","e","g","y","/","t","b","r","i","c","k","s","_","s","t","r","a","t","e","g","y",".","h","\"","\n","#","e","n","d","i","f">>

LineSamples ==
    { Record(PrefixIncludes, <<"l","o","g","(","\"","a","\\","n","\"",")",";","\n","r","e","t","u","r","n"," ","x",";">>),
      Record(PrefixIncludes, <<"n","a","m","e","s","p","a","c","e"," ","t","b","r","i","c","k","s">>),
      Record(PrefixIncludes, <<"s","t","d",":",":","v","e","c","t","o","r","<","i","n","t",">"," ","v","(","n",")",",">>),
      Record(PrefixIncludes, <<"s","t","a","t","i","c"," ","c","o","n","s","t"," ","s","t","d",":",":","v","e","c","t","o","r","<","s","t","d",":",":","s","t","r","i","n","g",">"," ","k","N","a","m","e","s"," ","="," ","l","o","a","d","A","l","l","N","a","m","e","s","(","c","o","n","f","i","g",","," ","d","e","f","a","u","l","t","s",")",";">>),
      Record(PrefixIncludes, <<" "," ">>),
      Record(PrefixIncludes, <<>>),
      Record(PrefixIncludes, <<"f","o","o","(","a",","," ","b",")",",">>),
      Record(PrefixStatements, <<"i","n","t"," ","v","a","l","u","e"," ","="," ","c","o","m","p","u","t","e","(","a",","," ","b",")",";">>),
      Record(PrefixGuarded, <<"i","n","t"," ","v","a","l","u","e"," ","="," ","c","o","m","p","u","t","e","(","a",","," ","b",")",";">>),
      Record(PrefixGuarded, <<"u","p","d","a","t","e","(",")",";">>),
      [kind |-> "blank", obj |-> <<>>],
      [kind |-> "malformed", obj |-> <<>>] }

Init ==
    /\ lines = <<>>
    /\ pc = "done"
    /\ it = 1
    /\ pairs = <<>>
    /\ pair_tuples = <<>>
    /\ seen_pairs = {}
    /\ files \in {[extracted |-> f] : f \in SeqsUpTo(LineSamples, MaxRecords)}
    /\ run = NoRun

Next ==
    \/ \E stage \in Stages, mode \in {"chain", "rerun"} : StartRun(stage, mode)
    \/ Phase1Line
    \/ Phase1Summary
    \/ Phase2Line
    \/ Phase2Summary
    \/ Phase3Line
    \/ Phase3Summary
    \/ CompositeLine
    \/ CompositeSummary

Spec == Init /\ [][Next]_vars

(***************************************************************************)
(* A filter run on a file it is handed directly.  Each script opens the    *)
(* file its main() names, whatever wrote it, so the file can hold lines no *)
(* earlier stage of the chain would write: malformed JSON, a JSON value    *)
(* that is not an object, an object whose content has no FIM tags.         *)
(***************************************************************************)
TaglessRecord == json_dumps([content |-> <<"i","n","t"," ","x",";">>])

\* a first line indented by six columns, and the same after an empty line
PrefixIndented == <<" "," "," "," "," "," ","#","i","n","c","l","u","d","e"," ","<","v","e","c","t","o","r",">","\n","i","n","t"," ","a",";">>

PrefixBlankThenIndented == <<"\n"," "," "," "," "," "," ","#","i","n","c","l","u","d","e"," ","<","v","e","c","t","o","r",">","\n","i","n","t"," ","a",";">>

StageLineSamples ==
    { Record(PrefixIncludes, <<"l","o","g","(","\"","a","\\","n","\"",")",";","\n","r","e","t","u","r","n"," ","x",";">>),
      Record(PrefixGuarded, <<"u","p","d","a","t","e","(",")",";">>),
      Record(PrefixIndented, <<"i","n","t"," ","v","a","l","u","e"," ","="," ","c","o","m","p","u","t","e","(","a",","," ","b",")",";">>),
      Record(PrefixBlankThenIndented, <<"i","n","t"," ","v","a","l","u","e"," ","="," ","c","o","m","p","u","t","e","(","a",","," ","b",")",";">>),
      TaglessRecord,
      [kind |-> "malformed", obj |-> <<>>],
      [kind |-> "nonobject", obj |-> <<>>] }

InitStages ==
    /\ lines = <<>>
    /\ pc = "done"
    /\ it = 1
    /\ pairs = <<>>
    /\ pair_tuples = <<>>
    /\ seen_pairs = {}
    /\ files \in {DictSet(<<>>, InputFile[stage], f) :
                     stage \in Stages, f \in SeqsUpTo(StageLineSamples, MaxRecords)}
    /\ run = NoRun

SpecStages == InitStages /\ [][Next]_vars

(***************************************************************************)
(* Phase 3 on a file of one record, with prefixes and middles of lengths   *)
(* on both sides of every limit of should_reject_improved.  The text is    *)
(* words of two letters, so that no other rule of the filter applies.      *)
(* Further records have a middle that ends in blanks.                      *)
(***************************************************************************)
PrefixLengths == {10, 100, 150, 151, 300, 301, 500, 501, 600, 1000}

MiddleLengths == {5, 60, 121, 180, 181, 200, 201, 241, 300, 400, 900}

Filler(n) == [i \in 1..n |-> IF i % 3 = 0 /\ i < n THEN " " ELSE "x"]

\* a statement followed by n blanks, as an output line of the extractor that
\* ends in blanks (output lines are trimmed on the left only)
PaddedMiddle(n) == <<"i","n","t"," ","v","a","l","u","e"," ","="," ","c","o","m","p","u","t","e","(","a",","," ","b",")",";">> \o [i \in 1..n |-> " "]

Paddings == {0, 10, 60, 61, 70}

InitLengths ==
    /\ lines = <<>>
    /\ pc = "done"
    /\ it = 1
    /\ pairs = <<>>
    /\ pair_tuples = <<>>
    /\ seen_pairs = {}
    /\ files \in {[phase2 |-> <<Record(Filler(p), Filler(m))>>] :
                     p \in PrefixLengths, m \in MiddleLengths}
                \cup {[phase2 |-> <<Record(PrefixIncludes, PaddedMiddle(n))>>] : n \in Paddings}
    /\ run = NoRun

NextLengths ==
    \/ StartRun("phase3", "chain")
    \/ Phase3Line
    \/ Phase3Summary

SpecLengths == InitLengths /\ [][NextLengths]_vars

(***************************************************************************)
(* The FIM fields of a record as the record format defines them: the       *)
(* prefix is the text between <fim_prefix> and <fim_suffix>, the middle is *)
(* everything after <fim_middle> up to the end of content.                 *)
(***************************************************************************)
FimPrefix(content) ==
    LET opens == Occurrences(content, <<"<","f","i","m","_","p","r","e","f","i","x",">">>)
    IN  IF opens = {} THEN <<>>
        ELSE LET from   == SetMin(opens) + 12
                 closes == {k \in Occurrences(content, <<"<","f","i","m","_","s","u","f","f","i","x",">">>) : k >= from}
             IN  IF closes = {} THEN <<>> ELSE SubSeq(content, from, SetMin(closes) - 1)

FimMiddle(content) ==
    LET tags == Occurrences(content, <<"<","f","i","m","_","m","i","d","d","l","e",">">>)
    IN  IF tags = {} THEN <<>> ELSE SubSeq(content, SetMin(tags) + 12, Len(content))

FimFields(content) == <<FimPrefix(content), FimMiddle(content)>>

(***************************************************************************)
(* Claims about the pair extractor                                         *)
(***************************************************************************)

\* C1: extract_pairs_from_file returns no two records with the same
\* (prefix, middle) pair, whichever strategy, context length or output
\* length produced the candidates: each record appended so far is the
\* serialisation of its own (prefix, middle) pair, and these pairs are
\* pairwise different.
C1_NoDuplicatePairs ==
    /\ Len(pairs) = Len(pair_tuples)
    /\ \A i \in DOMAIN pairs :
          pairs[i].content = FimContent(pair_tuples[i][1], pair_tuples[i][2])
    /\ \A i, j \in DOMAIN pairs : i # j => pair_tuples[i] # pair_tuples[j]

\* the extractor has returned for a file where Strategy 1, with one output
\* line and the same context length, builds the same pair at two positions
C1_Witness ==
    /\ pc = "done"
    /\ LET ci == code_indices(lines)
       IN  \E idx1, idx2 \in 0..(Len(ci) - 2), c \in min_context..max_context :
              /\ idx1 # idx2
              /\ CandidatePair(lines, ci, idx1, c, 1) # <<>>
              /\ CandidatePair(lines, ci, idx1, c, 1) = CandidatePair(lines, ci, idx2, c, 1)
              /\ \E i \in DOMAIN pair_tuples : <<pair_tuples[i]>> = CandidatePair(lines, ci, idx1, c, 1)

\* a preprocessor directive line: "#", optional blanks, then one of the names
IsDirective(line, names) ==
    ReMatch(Cat(<<ReS0, Ch({"#"}), Star(Ch({" ", "\t"})),
                  Alt([k \in DOMAIN names |-> Lit(names[k])]), Wb>>), line)

IsIfLine(line) == IsDirective(line, <<<<"i","f">>, <<"i","f","d","e","f">>, <<"i","f","n","d","e","f">>>>)

IsEndifLine(line) == IsDirective(line, <<<<"e","n","d","i","f">>>>)

IsBranchLine(line) == IsDirective(line, <<<<"e","l","s","e">>, <<"e","l","i","f">>>>)

\* the number of #if/#ifdef/#ifndef lines among the first k lines that no
\* #endif line among them has matched
RECURSIVE UnmatchedIfs(_, _)
UnmatchedIfs(ls, k) ==
    IF k = 0 THEN 0
    ELSE LET before == UnmatchedIfs(ls, k - 1)
         IN  IF IsIfLine(ls[k]) THEN before + 1
             ELSE IF IsEndifLine(ls[k]) /\ before > 0 THEN before - 1
             ELSE before

\* C2: scanning the prefix lines of an emitted record top to bottom never
\* meets an #else, #elif or #endif line at a point where no still-unmatched
\* #if/#ifdef/#ifndef line precedes it in that prefix.
C2_NoOrphanedBranch ==
    \A i \in DOMAIN pairs :
        LET ls == SplitLines(FimPrefix(pairs[i].content))
        IN  \A k \in DOMAIN ls :
                IsBranchLine(ls[k]) \/ IsEndifLine(ls[k]) => UnmatchedIfs(ls, k - 1) > 0

(***************************************************************************)
(* Claims about the filter chain                                           *)
(***************************************************************************)
\* the lines of a file, none if the file does not exist
LinesOf(name) == IF name \in DOMAIN files THEN files[name] ELSE <<>>

\* the content strings of the records of a file, in order
ContentsOf(name) == [i \in DOMAIN LinesOf(name) |-> json_loads(LinesOf(name)[i])["content"]]

\* the records a stage has written: its output file, and the file of its
\* second run
WrittenBy(stage) ==
    {LinesOf(OutputFile[stage])[i] : i \in DOMAIN LinesOf(OutputFile[stage])}
        \cup (IF run.mode = "rerun" /\ run.stage = stage
              THEN {LinesOf("rerun")[i] : i \in DOMAIN LinesOf("rerun")} ELSE {})

OnlySymbols(m) == \A i \in DOMAIN m : m[i] \in SpaceCh \cup {"{", "}", "(", ")", "[", "]", ";", ","}

BareAccessSpecifier(m) ==
    \E w \in {<<"p","u","b","l","i","c">>, <<"p","r","i","v","a","t","e">>, <<"p","r","o","t","e","c","t","e","d">>} : StartsWith(m, w) /\ Strip(SubSeq(m, Len(w) + 1, Len(m))) = <<":">>

\* C3: for every record written by Phase 2, the middle (everything after
\* <fim_middle> to the end of content, outer white space apart) does not end
\* with a comma, is not a bare public:/private:/protected: line, is longer
\* than 2 characters and is not made only of brackets, punctuation and
\* white space.
C3_Phase2MiddleClean ==
    \A line \in WrittenBy("phase2") :
        LET m == Strip(FimMiddle(json_loads(line)["content"]))
        IN  /\ ~EndsWith(m, <<",">>)
            /\ ~BareAccessSpecifier(m)
            /\ Len(m) > 2
            /\ ~OnlySymbols(m)

\* the ceiling, in percent, of len(middle)/len(prefix) for a prefix length
BandCeiling(prefix_len) ==
    IF prefix_len <= 150 THEN 120
    ELSE IF prefix_len <= 300 THEN 80
    ELSE IF prefix_len <= 500 THEN 60
    ELSE 40

\* C4: for every record written by Phase 3, with prefix and middle the FIM
\* fields of the record (outer white space apart): 8 <= len(middle) <= 400,
\* 50 <= len(prefix) <= 5000, and len(middle)/len(prefix) is at or below the
\* ceiling of the prefix-length band.
C4_Phase3LengthBounds ==
    \A line \in WrittenBy("phase3") :
        LET fields == FimFields(json_loads(line)["content"])
            p == Len(Strip(fields[1]))
            m == Len(Strip(fields[2]))
        IN  /\ 8 <= m /\ m <= 400
            /\ 50 <= p /\ p <= 5000
            /\ 100 * m <= BandCeiling(p) * p

\* C5: every record Phase 1 writes to its output has a middle that is a
\* meaningful completion: is_meaningful_code_completion(middle, prefix).
C5_Phase1KeepsOnlyMeaningful ==
    \A line \in WrittenBy("phase1") :
        LET fields == FimFields(json_loads(line)["content"])
        IN  is_meaningful_code_completion(fields[2], fields[1])

\* C6: every record Phase 1 writes to its output has a middle that is not
\* empty and not white space only.
C6_Phase1MiddleNotEmpty ==
    \A line \in WrittenBy("phase1") :
        Strip(FimMiddle(json_loads(line)["content"])) # <<>>

\* Phase 1 has read only records whose prefix starts on a complete line and
\* whose middle is empty or white space only, and has rejected them all
C6_Witness ==
    /\ run.stage = "phase1"
    /\ run.mode = "chain"
    /\ run.pos > 1
    /\ \A i \in 1..(run.pos - 1) :
          LET line == files["extracted"][i]
          IN  /\ line.kind = "object"
              /\ LET fields == FimFields(json_loads(line)["content"])
                 IN  /\ Strip(fields[2]) = <<>>
                     /\ starts_with_complete_code_line(fields[1])
    /\ run.rejected = run.pos - 1
    /\ files["phase1"] = <<>>

InUnit(score) == 0 <= score /\ score <= 1000

\* C8: every quality score a stage attaches to a record lies in [0.0, 1.0]
\* (0..1000 thousandths): quality_score, quality_middle_score,
\* quality_length_score and the four scores under quality_scores.
C8_ScoresInUnitInterval ==
    \A name \in DOMAIN files : \A i \in DOMAIN files[name] :
        LET obj == files[name][i].obj
        IN  /\ "quality_score" \in DOMAIN obj => InUnit(obj["quality_score"])
            /\ "quality_middle_score" \in DOMAIN obj => InUnit(obj["quality_middle_score"])
            /\ "quality_length_score" \in DOMAIN obj => InUnit(obj["quality_length_score"])
            /\ "quality_scores" \in DOMAIN obj =>
                  /\ InUnit(obj["quality_scores"].phase1_context_quality)
                  /\ InUnit(obj["quality_scores"].phase2_middle_quality)
                  /\ InUnit(obj["quality_scores"].phase3_length_quality)
                  /\ InUnit(obj["quality_scores"].composite_quality)

\* the composite scorer has written a record that carries the scores of all
\* four stages, one of them at the top of the range or the bottom
C8_Witness ==
    /\ "final" \in DOMAIN files
    /\ \E i \in DOMAIN files["final"] :
          LET obj == files["final"][i].obj
          IN  /\ {"quality_score", "quality_middle_score", "quality_length_score",
                  "quality_scores"} \subseteq DOMAIN obj
              /\ obj["quality_scores"].phase1_context_quality = 0

\* the tier a composite score belongs to, by the thresholds 0.8, 0.6, 0.4
TierOf(composite) ==
    CHOOSE tier \in {"high_quality", "medium_quality", "acceptable_quality", "low_quality"} :
        /\ tier = "high_quality" <=> composite >= 800
        /\ tier = "medium_quality" <=> (600 <= composite /\ composite < 800)
        /\ tier = "acceptable_quality" <=> (400 <= composite /\ composite < 600)
        /\ tier = "low_quality" <=> composite < 400

StageFields ==
    [phase1 |-> {"quality_score", "quality_phase"},
     phase2 |-> {"quality_phase2", "quality_middle_reason", "quality_middle_score"},
     phase3 |-> {"quality_phase3b", "quality_length_reason", "quality_length_score",
                 "quality_prefix_length", "quality_middle_length", "quality_ratio"},
     composite |-> {"quality_scores", "quality_metrics", "quality_tier"}]

\* the record `out` is the record `in` with fields of `added` added
Enriches(out, in, added) ==
    /\ in.kind = "object"
    /\ DOMAIN in.obj \subseteq DOMAIN out.obj
    /\ \A k \in DOMAIN in.obj : out.obj[k] = in.obj[k]
    /\ DOMAIN out.obj \ DOMAIN in.obj \subseteq added

\* C10: enrichment is append-only across the chain Phase 1 -> Phase 2 ->
\* Phase 3 -> composite scorer: every record a stage writes is one of the
\* records of its input file, with the same content string and the same
\* value of every field it carried, and with fields of the stage's own
\* annotation added; the records keep their order.
C10_AppendOnly ==
    \A stage \in Stages :
        LET in  == LinesOf(InputFile[stage])
            out == LinesOf(OutputFile[stage])
        IN  \E pick \in [DOMAIN out -> DOMAIN in] :
                /\ \A i, j \in DOMAIN out : i < j => pick[i] < pick[j]
                /\ \A i \in DOMAIN out : Enriches(out[i], in[pick[i]], StageFields[stage])

\* the composite scorer has written a record that went through the three
\* filters and carries the fields of all four stages
C10_Witness ==
    /\ "final" \in DOMAIN files
    /\ \E i \in DOMAIN files["final"] :
          /\ DOMAIN files["final"][i].obj =
                {"content"} \cup StageFields["phase1"] \cup StageFields["phase2"]
                    \cup StageFields["phase3"] \cup StageFields["composite"]
          /\ \E c \in DOMAIN files["final"][i].obj["content"] :
                files["final"][i].obj["content"][c] = "\\n"

(***************************************************************************)
(* Claims about the line loop of the four filters                          *)
(***************************************************************************)

\* the lines of the current run's input file that the run has read
LinesRead == SubSeq(LinesOf(run.input), 1, run.pos - 1)

\* whether the stage writes a record for this line
Keeps(stage, line) ==
    /\ line.kind = "object"
    /\ LET content == DictGet(json_loads(line), "content", <<>>)
       IN  CASE stage = "phase1" ->
                  /\ {"prefix", "middle"} \subseteq DOMAIN extract_fim_parts(content)
                  /\ calculate_quality_score(extract_fim_parts(content)) >= quality_threshold
             [] stage = "phase2" -> ~should_reject_middle(extract_fim_middle(content))[1]
             [] stage = "phase3" ->
                  ~should_reject_improved(extract_fim_components(content)[1],
                                          extract_fim_components(content)[2])[1]
             [] OTHER -> {"prefix", "middle"} \subseteq DOMAIN extract_fim_parts(content)

\* the lines of ls that are not malformed JSON
RECURSIVE WithoutMalformed(_)
WithoutMalformed(ls) ==
    IF ls = <<>> THEN <<>>
    ELSE IF Head(ls).kind = "malformed" THEN WithoutMalformed(Tail(ls))
    ELSE <<Head(ls)>> \o WithoutMalformed(Tail(ls))

\* the content strings of the lines of ls the stage keeps, in order
RECURSIVE KeptContents(_, _)
KeptContents(stage, ls) ==
    IF ls = <<>> THEN <<>>
    ELSE IF Keeps(stage, Head(ls))
         THEN <<json_loads(Head(ls))["content"]>> \o KeptContents(stage, Tail(ls))
         ELSE KeptContents(stage, Tail(ls))

MalformedRead == {i \in DOMAIN LinesRead : LinesRead[i].kind = "malformed"}

\* C11: in each of the four filters a line that is not valid JSON stops
\* nothing and writes nothing: the run goes on to the next line, the records
\* written so far are those the stage keeps of the lines read with the
\* malformed ones taken out, and in Phases 1 to 3 every malformed line read
\* is among the rejected (rejected = non-blank lines read that were not kept).
C11_MalformedLineSkipped ==
    run.stage \in Stages =>
        /\ run.status = "aborted" => LinesRead[Len(LinesRead)].kind # "malformed"
        /\ run.status # "aborted" =>
              /\ ContentsOf(run.output) = KeptContents(run.stage, WithoutMalformed(LinesRead))
              /\ run.stage # "composite" =>
                    /\ run.rejected >= Cardinality(MalformedRead)
                    /\ run.rejected + run.kept = run.total
                    /\ run.total = Cardinality({i \in DOMAIN LinesRead : LinesRead[i].kind # "blank"})

\* a Phase 2 run that has met a malformed line, counted it, and written a
\* record for a later line
C11_Witness ==
    /\ run.stage = "phase2"
    /\ run.status = "done"
    /\ run.rejected >= 1
    /\ \E i, j \in DOMAIN LinesRead :
          /\ i < j
          /\ LinesRead[i].kind = "malformed"
          /\ Keeps("phase2", LinesRead[j])
          /\ json_loads(LinesOf(run.output)[Len(LinesOf(run.output))])["content"]
                = json_loads(LinesRead[j])["content"]

\* C12: a run that has returned normally (after its summary, or from the
\* handler of its outer try) has read every line of its input file; the only
\* other way a run ends is an exception nothing catches.
C12_RunsToEndOrRaises ==
    run.status \in {"done", "aborted"} => run.pos > Len(LinesOf(run.input))

(***************************************************************************)
(* Claims about the rejection reasons of Phases 2 and 3                    *)
(***************************************************************************)

\* the reason that names a ceiling, by the ceiling in hundredths
CeilingReason ==
    [c \in {120, 80, 60, 40} |->
        CASE c = 120 -> "ratio_too_large_120" [] c = 80 -> "ratio_too_large_80"
          [] c = 60 -> "ratio_too_large_60" [] OTHER -> "ratio_too_large_40"]

\* the record Phase 3 has just read in a run over a file of one record
Phase3Read == run.stage = "phase3" /\ run.pos = 2 /\ Len(LinesOf(run.input)) = 1

ReadPrefixLen == Len(Strip(FimPrefix(ContentsOf(run.input)[1])))

ReadMiddleLen == Len(Strip(FimMiddle(ContentsOf(run.input)[1])))

OverCeiling == ReadMiddleLen * 100 > BandCeiling(ReadPrefixLen) * ReadPrefixLen

CommaMiddlesRead ==
    {i \in DOMAIN LinesRead :
        /\ LinesRead[i].kind = "object"
        /\ EndsWith(Strip(FimMiddle(json_loads(LinesRead[i])["content"])), <<",">>)}

\* C14: Phase 2 keeps no record whose trimmed middle ends with a comma, and
\* tallies each of them under incomplete_comma, whatever other rule
\* (too_short, pure_symbols) the middle also meets.
C14_CommaAlwaysIncompleteComma ==
    run.stage = "phase2" =>
        /\ DictGet(run.reasons, "incomplete_comma", 0) = Cardinality(CommaMiddlesRead)
        /\ \A i \in DOMAIN LinesOf(run.output) :
              ~EndsWith(Strip(FimMiddle(ContentsOf(run.output)[i])), <<",">>)

(***************************************************************************)
(* Claims about the composite scorer's loop                                *)
(***************************************************************************)

\* content holds <fim_prefix> ... <fim_suffix> and <fim_middle>
HasPrefixAndMiddle(content) ==
    /\ \E a \in Occurrences(content, <<"<","f","i","m","_","p","r","e","f","i","x",">">>), b \in Occurrences(content, <<"<","f","i","m","_","s","u","f","f","i","x",">">>) :
          b >= a + 12
    /\ Occurrences(content, <<"<","f","i","m","_","m","i","d","d","l","e",">">>) # {}

\* the content strings of the records of ls that hold a prefix and a middle
RECURSIVE ScorableContents(_)
ScorableContents(ls) ==
    IF ls = <<>> THEN <<>>
    ELSE IF Head(ls).kind = "object" /\ HasPrefixAndMiddle(json_loads(Head(ls))["content"])
         THEN <<json_loads(Head(ls))["content"]>> \o ScorableContents(Tail(ls))
         ELSE ScorableContents(Tail(ls))

\* C20: the composite scorer's output holds, once each and in input order,
\* the records read so far that have a prefix and a middle, whatever their
\* scores and tier; the processed count is the number of records written,
\* so a record without prefix and middle adds to the total only.
C20_CompositeDropsNothing ==
    run.stage = "composite" =>
        /\ ContentsOf(run.output) = ScorableContents(LinesRead)
        /\ run.kept = Len(LinesOf(run.output))
        /\ run.total = Cardinality({i \in DOMAIN LinesRead : LinesRead[i].kind # "blank"})
        /\ \A i \in DOMAIN LinesOf(run.output) :
              LinesOf(run.output)[i].obj["quality_tier"]
                 \in {"low_quality", "acceptable_quality", "medium_quality", "high_quality"}

\* the scorer has finished a file with a record without FIM tags, which it
\* left out and did not count as processed, and has written a record of
\* tier low_quality with a phase-1 score of 0
C20_Witness ==
    /\ run.stage = "composite"
    /\ run.status = "done"
    /\ \E i \in DOMAIN LinesRead : LinesRead[i] = TaglessRecord
    /\ run.kept < run.total
    /\ \E i \in DOMAIN LinesOf(run.output) :
          /\ LinesOf(run.output)[i].obj["quality_tier"] = "low_quality"
          /\ LinesOf(run.output)[i].obj["quality_scores"]["phase1_context_quality"] = 0

(***************************************************************************)
(* Claims about the windows of the extractor                               *)
(***************************************************************************)

\* the prefix and the middle of the i-th record the extractor has emitted
PrefixOf(i) == FimPrefix(pairs[i].content)

MiddleOf(i) == FimMiddle(pairs[i].content)

\* whether Phase 1 keeps the i-th record, written as main() writes it
Phase1Accepts(i) == Keeps("phase1", json_dumps(pairs[i]))

SignatureLine == <<"v","o","i","d"," ","f","(","i","n","t"," ","a",")">>

\* signature, lone brace, two statements
ScenarioFile == << <<"v","o","i","d"," ","f","(","i","n","t"," ","a",")","\n">>, <<"{","\n">>, <<" "," "," "," ","i","n","t"," ","a",";","\n">>, <<" "," "," "," ","b","(",")",";","\n">> >>

\* a blank line, then signature, lone brace, one statement
ScenarioAfterBlank == << <<"\n">>, <<"v","o","i","d"," ","f","(","i","n","t"," ","a",")","\n">>, <<"{","\n">>, <<" "," "," "," ","i","n","t"," ","a",";","\n">> >>

Emitted(prefix, middle) ==
    \E i \in DOMAIN pairs : PrefixOf(i) = prefix /\ MiddleOf(i) = middle /\ Phase1Accepts(i)

\* C15: no record of any file has a middle with a line that is only `{`.
\* For the file of a signature line, a lone `{` and two statement lines, the
\* signature is the first line of the file and a context has at least two
\* lines, so no prefix ends on the signature line: the extractor emits the
\* records with prefix signature + `{` and middle the first statement or
\* both statements, and Phase 1 accepts them.  When a line precedes the
\* signature, the record with prefix signature and middle first statement
\* (the lone `{` dropped from the output window) is emitted and accepted.
C15_SignatureScenario ==
    /\ \A i \in DOMAIN pairs : \A k \in DOMAIN SplitLines(MiddleOf(i)) :
          Strip(SplitLines(MiddleOf(i))[k]) # <<"{">>
    /\ (pc = "done" /\ lines = ScenarioFile) =>
          /\ \A i \in DOMAIN pairs :
                SplitLines(PrefixOf(i))[Len(SplitLines(PrefixOf(i)))] # SignatureLine
          /\ Emitted(<<"v","o","i","d"," ","f","(","i","n","t"," ","a",")","\n","{">>, <<"i","n","t"," ","a",";">>)
          /\ Emitted(<<"v","o","i","d"," ","f","(","i","n","t"," ","a",")","\n","{">>, <<"i","n","t"," ","a",";","\n","b","(",")",";">>)
    /\ (pc = "done" /\ lines = ScenarioAfterBlank) => Emitted(SignatureLine, <<"i","n","t"," ","a",";">>)

\* the extractor has returned for the scenario file with the record of the
\* first statement after signature + `{`
C15_Witness ==
    /\ pc = "done"
    /\ lines = ScenarioFile
    /\ Emitted(<<"v","o","i","d"," ","f","(","i","n","t"," ","a",")","\n","{">>, <<"i","n","t"," ","a",";">>)

\* C15 as written: for the scenario file no middle holds the lone `{`, and
\* a record whose prefix ends on the signature line and whose middle is the
\* first statement or both statements is emitted and accepted by Phase 1
C15_PrefixEndsOnSignature ==
    (pc = "done" /\ lines = ScenarioFile) =>
        /\ \A i \in DOMAIN pairs : \A k \in DOMAIN SplitLines(MiddleOf(i)) :
              Strip(SplitLines(MiddleOf(i))[k]) # <<"{">>
        /\ \E i \in DOMAIN pairs :
              /\ SplitLines(PrefixOf(i))[Len(SplitLines(PrefixOf(i)))] = SignatureLine
              /\ MiddleOf(i) \in {<<"i","n","t"," ","a",";">>, <<"i","n","t"," ","a",";","\n","b","(",")",";">>}
              /\ Phase1Accepts(i)

\* a line that, white space apart, starts with //, /* or *
CommentOnly(l) ==
    LET s == Strip(l)
    IN  /\ s # <<>>
        /\ \/ s[1] = "*"
           \/ Len(s) >= 2 /\ s[1] = "/" /\ s[2] \in {"/", "*"}

\* the lines a..b of the file, as the extractor reads a window
Window(a, b) == [k \in 1..(b - a + 1) |-> RStripChars(lines[a + k - 1], {"\n"})]

\* no leading blank or comment line, no comment line anywhere
CleanContext(ls) ==
    /\ ls # <<>> => Strip(ls[1]) # <<>>
    /\ \A k \in DOMAIN ls : ~CommentOnly(ls[k])

\* C16: the first line of every emitted prefix is neither blank nor a
\* comment and no line of the prefix is a comment; clean_input_context
\* gives such a result for every window of the file, the empty one for a
\* window of blank and comment lines only (the file never changes, so the
\* windows are looked at before the first record is appended).
C16_PrefixHasNoComment ==
    /\ \A i \in DOMAIN pairs : CleanContext(SplitLines(PrefixOf(i)))
    /\ Len(pairs) = 0 =>
          \A a, b \in DOMAIN lines :
             a <= b =>
                /\ CleanContext(clean_input_context(Window(a, b)))
                /\ (\A k \in a..b : Strip(lines[k]) = <<>> \/ CommentOnly(lines[k]))
                      => clean_input_context(Window(a, b)) = <<>>

\* the extractor has emitted a record whose context window held a comment
\* line after its first code line
C16_Witness ==
    /\ pc = "done"
    /\ \E a, b \in DOMAIN lines, i \in DOMAIN pairs :
          /\ a < b
          /\ ~CommentOnly(lines[a]) /\ Strip(lines[a]) # <<>>
          /\ \E k \in a..b : CommentOnly(lines[k])
          /\ PrefixOf(i) = Join(<<"\n">>, clean_input_context(Window(a, b)))
          /\ Len(SplitLines(PrefixOf(i))) < b - a + 1

\* the positions (from 0) of the lines in the file's list of code lines
CodeLinePositions == {code_indices(lines)[k] : k \in DOMAIN code_indices(lines)}

\* a preprocessor line other than #include
OtherDirective(l) == StartsWith(Strip(l), <<"#">>) /\ ~IsDirective(l, << <<"i","n","c","l","u","d","e">> >>)

\* a line that counts as real code in an output window
RealCode(l) ==
    /\ Strip(l) # <<>>
    /\ ~CommentOnly(l)
    /\ \E k \in DOMAIN l : l[k] \notin SpaceCh \cup {"{", "}", "[", "]", "(", ")", ";", ",", "."}
    /\ ~OtherDirective(l)

C18_PrefixLinesKeepTrailingBlanks ==
    \A i \in DOMAIN pairs :
        LET prefix_lines == SplitLines(PrefixOf(i))
        IN  \A k \in DOMAIN prefix_lines :
               \E j \in DOMAIN lines : lines[j] = prefix_lines[k] \o <<"\n">>

\* the extractor has returned a record with a prefix line that ends with a
\* blank and one that ends with a tab
C18_Witness ==
    /\ pc = "done"
    /\ \E i \in DOMAIN pairs :
          LET prefix_lines == SplitLines(PrefixOf(i))
          IN  /\ \E k \in DOMAIN prefix_lines : EndsWith(prefix_lines[k], <<" ">>)
              /\ \E k \in DOMAIN prefix_lines : EndsWith(prefix_lines[k], <<"\t">>)

\* C18 as written: no line of an emitted prefix ends with a space or a tab
C18_PrefixLinesTrimmed ==
    \A i \in DOMAIN pairs :
        LET prefix_lines == SplitLines(PrefixOf(i))
        IN  \A k \in DOMAIN prefix_lines :
               ~EndsWith(prefix_lines[k], <<" ">>) /\ ~EndsWith(prefix_lines[k], <<"\t">>)

(***************************************************************************)
(* Claims about the two strategies                                         *)
(***************************************************************************)

\* the records after the iterations k, k+1, ... of Strategy 1
RECURSIVE AfterStrategy1(_, _, _, _)
AfterStrategy1(ls, ci, k, st) ==
    IF k > Len(Strategy1Iterations(Len(ci))) THEN st
    ELSE AfterStrategy1(ls, ci, k + 1,
                        AddPairs(st, CandidatesFrom(ls, ci, Strategy1Iterations(Len(ci))[k][2],
                                                    min_context, Strategy1Iterations(Len(ci))[k][1])))

\* the records after the iterations k, k+1, ... of Strategy 2
RECURSIVE AfterStrategy2(_, _, _, _)
AfterStrategy2(ls, ci, k, st) ==
    IF k > Len(Strategy2Iterations(Len(ci))) THEN st
    ELSE AfterStrategy2(ls, ci, k + 1,
                        AddPairs(st, CandidatesFrom(ls, ci, Strategy2Iterations(Len(ci))[k],
                                                    min_context, max_output)))

\* what Strategy A alone returns for a file
StrategyAOutput(ls) ==
    AfterStrategy1(ls, code_indices(ls), 1, [pairs |-> <<>>, tuples |-> <<>>, seen |-> {}])

\* what the extractor returns for a file
ExtractorOutput(ls) == AfterStrategy2(ls, code_indices(ls), 1, StrategyAOutput(ls))

\* C19: among the source files of at most MaxFileLines lines there is one
\* for which the extractor returns a record that Strategy A alone does not
\* produce (stated where the extractor has returned for a file of that
\* many lines, whose own records are what the extractor is computed to
\* return).
C19_StrategyBAddsRecord ==
    (pc = "done" /\ Len(lines) = MaxFileLines) =>
        /\ pairs = ExtractorOutput(lines).pairs
        /\ \E f \in SeqsUpTo(SourceLineSamples, MaxFileLines) :
              \E i \in DOMAIN ExtractorOutput(f).pairs :
                 \A j \in DOMAIN StrategyAOutput(f).pairs :
                    ExtractorOutput(f).pairs[i] # StrategyAOutput(f).pairs[j]

\* Strategy 2 appends nothing (a check that goes with C19)
Strategy2AddsNothing == [][pc = "strategy2" => pairs' = pairs]_vars

(***************************************************************************)
(* Claims about the first line of the prefix                               *)
(***************************************************************************)

\* the columns of white space before the first non-blank line of a text,
\* 0 when every line is blank
RECURSIVE FirstNonBlankIndent(_)
FirstNonBlankIndent(ls) ==
    IF ls = <<>> THEN 0
    ELSE IF Strip(Head(ls)) = <<>> THEN FirstNonBlankIndent(Tail(ls))
    ELSE Len(Head(ls)) - Len(LStrip(Head(ls)))

\* the lines a Phase 1 run has read whose prefix's first non-blank line is
\* indented by more than 4 columns
DeepLinesRead ==
    {i \in DOMAIN LinesRead :
        /\ LinesRead[i].kind = "object"
        /\ FirstNonBlankIndent(SplitLines(FimPrefix(json_loads(LinesRead[i])["content"]))) > 4}

\* C21: Phase 1 writes no record whose prefix's first non-blank line is
\* indented by more than 4 columns, empty lines before that line or not:
\* each such record read is counted as rejected and the output holds none.
C21_DeepFirstLineDropped ==
    run.stage = "phase1" =>
        /\ run.rejected >= Cardinality(DeepLinesRead)
        /\ \A i \in DOMAIN LinesOf(run.output) :
              FirstNonBlankIndent(SplitLines(FimPrefix(ContentsOf(run.output)[i]))) <= 4

(***************************************************************************)
(* Claims about what Phase 3 measures                                      *)
(***************************************************************************)

\* stripped middle shorter than 30% of the middle as it stands in content
MostlyWhitespace(content) ==
    Len(Strip(FimMiddle(content))) * 10 < 3 * Len(FimMiddle(content))

\* C22: Phase 3 writes no record whose middle, as it stands after
\* <fim_middle>, is mostly white space (stripped length below 30% of the raw
\* length).
C22_MostlyWhitespaceRejected ==
    run.stage = "phase3" =>
        \A i \in DOMAIN LinesOf(run.output) : ~MostlyWhitespace(ContentsOf(run.output)[i])

(***************************************************************************)
(* Claims about the preprocessor check of a context window                 *)
(***************************************************************************)

\* the scan the claim describes, from line k on with the given depth: TRUE
\* when an #else, #elif or #endif line is met at depth 0
RECURSIVE OrphanMet(_, _, _)
OrphanMet(ls, k, depth) ==
    IF k > Len(ls) THEN FALSE
    ELSE IF IsIfLine(ls[k]) THEN OrphanMet(ls, k + 1, depth + 1)
    ELSE IF IsBranchLine(ls[k]) THEN depth = 0 \/ OrphanMet(ls, k + 1, depth)
    ELSE IF IsEndifLine(ls[k]) THEN depth = 0 \/ OrphanMet(ls, k + 1, depth - 1)
    ELSE OrphanMet(ls, k + 1, depth)

\* C23: has_invalid_preprocessor_structure says invalid for a window of lines
\* exactly when the top-to-bottom scan with a depth (opened by #if, #ifdef,
\* #ifndef, closed by #endif, untouched by #else and #elif and by every other
\* line) meets an #else, #elif or #endif line at depth 0; unmatched openers
\* at the end are accepted.  The file never changes, so its windows are
\* looked at before the first record is appended.
C23_InvalidIffOrphanAtDepthZero ==
    (pc = "strategy1" /\ it = 1) =>
        \A a \in DOMAIN lines : \A b \in a..Len(lines) :
            LET w == Window(a, b)
            IN  has_invalid_preprocessor_structure(w) <=> OrphanMet(w, 1, 0)

(***************************************************************************)
(* Claims about the fields the stages work on                              *)
(***************************************************************************)

\* the prefix and the middle a stage works on for a content string
FieldsEvaluated(stage, content) ==
    CASE stage \in {"phase1", "composite"} ->
           <<PartsGet(extract_fim_parts(content), "prefix"), PartsGet(extract_fim_parts(content), "middle")>>
      [] stage = "phase2" -> <<FimPrefix(content), extract_fim_middle(content)>>
      [] OTHER -> extract_fim_components(content)

\* C24: for every record a stage has read, the stage works on the prefix
\* that stands between <fim_prefix> and <fim_suffix> and on the middle that
\* runs from <fim_middle> to the end of content, whichever stage it is and
\* also when the middle holds a "<".  (Phase 2 works on no prefix.)
C24_StagesRecoverSameFields ==
    run.stage \in Stages =>
        \A i \in DOMAIN LinesRead :
            LinesRead[i].kind = "object" =>
                LET content == DictGet(json_loads(LinesRead[i]), "content", <<>>)
                IN  FieldsEvaluated(run.stage, content) = FimFields(content)

(***************************************************************************)
(* Claims about the records the extractor emits                            *)
(***************************************************************************)

\* C25: a window of exactly one line that clean_output_lines returns does
\* not end with "{", and no one-line middle of an emitted record does.  The
\* file never changes, so its windows of at most max_output lines are looked
\* at before the first record is appended.
C25_SingleLineNeverEndsWithBrace ==
    /\ \A i \in DOMAIN pairs :
          Len(SplitLines(MiddleOf(i))) = 1 => ~EndsWith(MiddleOf(i), <<"{">>)
    /\ (pc = "strategy1" /\ it = 1) =>
          \A a \in DOMAIN lines : \A b \in a..Len(lines) :
              b - a < max_output =>
                  LET cleaned == clean_output_lines(Window(a, b))
                  IN  Len(cleaned) = 1 => ~EndsWith(cleaned[1], <<"{">>)

\* a line of closing brackets, semicolons and commas only, blanks around them
OnlyClosingPunctuation(l) ==
    /\ Strip(l) # <<>>
    /\ \A k \in DOMAIN Strip(l) : Strip(l)[k] \in {"}", "]", ")", ";", ","}

\* C26: the last line of the prefix of every emitted record holds something
\* other than closing brackets "}" "]" ")", semicolons and commas.
C26_PrefixNeverEndsOnClosingPunctuation ==
    \A i \in DOMAIN pairs :
        LET ls == SplitLines(PrefixOf(i))
        IN  ~OnlyClosingPunctuation(ls[Len(ls)])

(***************************************************************************)
(* Claims about the counters of a run                                      *)
(***************************************************************************)

\* the sum of the tallies of a reasons dictionary
RECURSIVE TallySum(_)
TallySum(reasons) ==
    IF DOMAIN reasons = {} THEN 0
    ELSE LET r == CHOOSE x \in DOMAIN reasons : TRUE
         IN  reasons[r] + TallySum([x \in DOMAIN reasons \ {r} |-> reasons[x]])

\* C27: whatever lines a run of Phase 1, 2 or 3 has gone through, total is
\* kept plus rejected; in Phases 2 and 3 the tallies of the reasons add up to
\* rejected and the output file has kept records.
C27_CountersConserved ==
    run.stage \in {"phase1", "phase2", "phase3"} =>
        /\ run.total = run.kept + run.rejected
        /\ run.stage \in {"phase2", "phase3"} =>
              /\ TallySum(run.reasons) = run.rejected
              /\ Len(LinesOf(run.output)) = run.kept

(***************************************************************************)
(* Claims about the annotations of the final corpus                        *)
(***************************************************************************)

\* the keys Phases 1, 2 and 3 stamp and the Composite Scorer computes again
PhaseStamps ==
    {"quality_score", "quality_middle_score", "quality_length_score",
     "quality_prefix_length", "quality_middle_length"}

\* C28: every record of the final corpus that carries the stamps of Phases
\* 1, 2 and 3 has the same values under quality_scores and quality_metrics:
\* phase1_context_quality = quality_score, phase2_middle_quality =
\* quality_middle_score, phase3_length_quality = quality_length_score,
\* prefix_length = quality_prefix_length, middle_length =
\* quality_middle_length.
C28_CompositeAgreesWithStamps ==
    \A i \in DOMAIN LinesOf("final") :
        LET data == json_loads(LinesOf("final")[i])
        IN  PhaseStamps \subseteq DOMAIN data =>
                /\ data["quality_scores"]["phase1_context_quality"] = data["quality_score"]
                /\ data["quality_scores"]["phase2_middle_quality"] = data["quality_middle_score"]
                /\ data["quality_scores"]["phase3_length_quality"] = data["quality_length_score"]
                /\ data["quality_metrics"]["prefix_length"] = data["quality_prefix_length"]
                /\ data["quality_metrics"]["middle_length"] = data["quality_middle_length"]

(***************************************************************************)
(* Claims about the end of a run                                           *)
(***************************************************************************)

\* the input file of the current run has no line other than blank ones
InputAllBlank ==
    \A i \in DOMAIN LinesOf(run.input) : LinesOf(run.input)[i].kind = "blank"

\* C29: a run of Phase 1, 2, 3 or of the Composite Scorer over an input with
\* no non-blank line that has ended has ended after its summary, without an
\* error, and has left an empty output file.
C29_EmptyInputCompletes ==
    (run.stage \in Stages /\ run.status # "running" /\ InputAllBlank) =>
        /\ run.status = "done"
        /\ LinesOf(run.output) = <<>>

(***************************************************************************)
(* Claims about the logical-flow bonus                                     *)
(***************************************************************************)

\* a continuation rule matches the last line of the prefix, and the check of
\* no matching rule accepts the middle
ContinuationRefused(prefix, middle) ==
    LET prefix_lines == SplitLines(Strip(prefix))
        last == Strip(prefix_lines[Len(prefix_lines)])
        matching == {k \in DOMAIN ContinuationPatterns : ReSearch(ContinuationPatterns[k], last)}
    IN  /\ matching # {}
        /\ \A k \in matching : ~ContinuationCheck(k, Strip(middle))

\* the parts of the records with a prefix and a middle among the given lines
ScorableParts(ls) ==
    {parts \in {extract_fim_parts(DictGet(json_loads(ls[i]), "content", <<>>)) :
                    i \in {j \in DOMAIN ls : ls[j].kind = "object"}} :
        {"prefix", "middle"} \subseteq DOMAIN parts}

\* the line the current run has read last, if any
LastRead == IF LinesRead = <<>> THEN <<>> ELSE <<LinesRead[Len(LinesRead)]>>

====
